---- MODULE Spec2Model ----
(***************************************************************************)
(* A model of trej: the lock policy engine (config.rs), the JACK graph     *)
(* cache and its change notifier (graph.rs) and the reconciliation pass    *)
(* (state.rs).  Port names are byte strings, written as sequences of       *)
(* character codes; indices into Vecs are 0-based as in the source.        *)
(***************************************************************************)
EXTENDS Integers, Sequences, FiniteSets, TLC

VARIABLES
    \* ---- lock policy engine (config.rs)
    retvl,      \* the LockConfig being built by From<ConfigFile> / held afterwards
    nLoaded,    \* number of file entries processed so far
    lphase,     \* "loading" | "loaded" | "stored" | "reloaded"
    file,       \* the ConfigFile produced by From<LockConfig>
    reloaded,   \* the LockConfig obtained by loading `file` again
    probe,      \* the last pure query applied: [op, a, b, res]
    \* ---- LockStatus lattice (config.rs)
    chain,      \* the statuses obtained by successive with_force / with_block calls
    \* ---- the JACK server (external collaborator of graph.rs)
    extPorts,   \* the registered port names, in the order client.ports() lists them
    extConns,   \* the connections, as <<output, input>> name pairs
    pending,    \* notification callbacks raised and not yet run
    extLeft,    \* changes other JACK clients may still make
    \* ---- Notifier (graph.rs)
    rf,         \* the AtomicBool
    mtx,        \* the Mutex of cvar: 0 when free, else the thread holding it
    wpc,        \* where each thread calling wait_timeout stands
    dur,        \* wait_timeout: whether each caller passed Some(duration)
    spc,        \* where the callback thread stands inside set()
    sets,       \* calls of set() so far
    \* ---- JackGraph (graph.rs)
    ports,      \* Vec<PortData>
    connections,\* Vec<(usize, usize)>
    pc,         \* where the consumer thread stands
    caller,     \* who called the update() in progress
    call_args,  \* source and dest of the connect() / disconnect() that called it
    was_stale,  \* update(): reset() found the flag set
    port_names, \* update(): the names listed
    port_a_idx, \* update(): index of the outer loop
    port_b_idx, \* update(): index of the inner loop
    last,       \* the last call that returned: [op, ok, upd]
    saved,      \* ports and connections as they were when update() was last entered
    allOk,      \* no update() has returned an error so far
    \* ---- TrejState (state.rs)
    config,     \* TrejState.config
    config_path, \* TrejState.config_path: Nothing, or Some(path) after load_file
    apc,        \* where apply_config stands: "none" | "run"
    todo,       \* apply_config: should_disconnect, not yet processed
    forceIdx,   \* apply_config: position in forced_connections()
    calls,      \* the graph calls issued by the current pass: [op, source, dest]
    passes,     \* apply_config passes that returned since anything else was called
    \* ---- TrejDaemon (daemon/mod.rs)
    event_stream,  \* the messages in the sync_channel, oldest first
    dpc,           \* where run() stands: "recv" | "read" | "apply" | "stopped"
    daemon_config, \* TrejDaemon.config, as the version of the policy it was read from
    policy_file,   \* the version the policy file holds, or "bad" when it does not parse
    graphOwed,     \* a graph notification was raised and no apply_config has started since
    policyOwed,    \* the file was changed to another policy and no apply_config has started since
    evLeft,        \* graph and file events still to come
    \* ---- PortFullname (model/ports.rs)
    buffer,     \* the String handed to PortFullname::new
    made,       \* what PortFullname::new(buffer) returned
    ser,        \* the string Serialize wrote for `made`
    back,       \* what Deserialize returned for `ser`
    npc,        \* "new" | "made" | "failed" | "ser" | "back" | "idle"
    \* ---- ItemKey (model/pathing.rs)
    key_in,     \* the three Option<usize> handed to ItemKey::new
    item_key,   \* the key held: Some(key), or Nothing after a panic
    parent_key, \* the key nth_child was called on
    child_idx,  \* the argument of that nth_child
    kpc,        \* "new" | "made" | "child" | "idle"
    \* ---- the daemon's apply_config (daemon/mod.rs)
    d_names,    \* port_names: the names client.ports() returned
    d_a,        \* index of port_a in the first loop
    d_b,        \* index of port_b in the first loop
    d_k,        \* index of the pair in conf.forced_connections()
    dcalls,     \* the connects and disconnects this apply_config issued so far
    \* ---- the popups of the graph view (ui/graphview/connect.rs, disconnect.rs)
    pop_kind,   \* "connect" (AddConnectionState) | "disconnect" (DelConnectionState)
    pop_port,   \* self.port
    selected_idx, \* self.selected_idx.selected()
    ppc         \* "closed" | "open" | "resolved" | "panicked"

lockVars == <<retvl, nLoaded, lphase, file, reloaded, probe>>

extVars == <<extPorts, extConns, pending, extLeft>>

cacheVars == <<ports, connections>>

updVars == <<pc, caller, call_args, was_stale, port_names, port_a_idx, port_b_idx>>

histVars == <<last, saved, allOk>>

graphVars == <<extVars, rf, cacheVars, updVars, histVars>>

stateVars == <<config, config_path, apc, todo, forceIdx, calls, passes>>

waitVars == <<mtx, wpc, dur, spc, sets>>

daemonVars ==
    <<event_stream, dpc, daemon_config, policy_file, graphOwed, policyOwed, evLeft>>

nameVars == <<buffer, made, ser, back, npc>>
\* ItemKey (model/pathing.rs)
keyVars == <<key_in, item_key, parent_key, child_idx, kpc>>
\* the daemon's apply_config (daemon/mod.rs)
enforceVars == <<d_names, d_a, d_b, d_k, dcalls>>
\* the connect and disconnect popups (ui/graphview/connect.rs, disconnect.rs)
popupVars == <<pop_kind, pop_port, selected_idx, ppc>>
restVars == <<keyVars, enforceVars, popupVars>>

vars == <<lockVars, chain, graphVars, stateVars, waitVars, daemonVars, nameVars, restVars>>

-----------------------------------------------------------------------------
(* Bounds of the model *)

\* number of entries of the policy document that are loaded
MaxEntries == 2
\* number of connections one port entry of the document declares
MaxConns == 1
\* number of ports nested under one client entry of the document
MaxNested == 1
\* number of with_force / with_block calls applied in a row
MaxOps == 4
\* number of ports registered with the server at the start
MaxPorts == 3
\* number of changes other JACK clients make to the graph
MaxExt == 1
\* number of notification callbacks that may be waiting to run
MaxPending == 1
\* consecutive apply_config passes that are followed
MaxPasses == 2
\* connections the port entry of a reconciled policy declares
MaxForced == 2
\* calls of Notifier::set() while threads wait
MaxSets == 2
\* messages the channel of the daemon holds (32 in the source)
MaxChannel == 2
\* graph notifications and file events the daemon sees
PORT_NAME_SIZE == 4
\* the least split index PortFullname::new refuses (jack::CLIENT_NAME_SIZE)
CLIENT_NAME_SIZE == 2
\* the longest string handed to PortFullname::new
MaxLen == 5
MaxEvents == 3

-----------------------------------------------------------------------------
(* Port names *)

\* the byte ':' that PortFullname::new searches for
Colon == 58

\* "a:o", "b:i", "a:m"
PortAO == <<97, 58, 111>>
PortBI == <<98, 58, 105>>
PortAM == <<97, 58, 109>>
\* "b:o"
PortBO == <<98, 58, 111>>

\* "a", "b"
ClientA == <<97>>
ClientB == <<98>>

\* The names the policy documents of the model may mention.
PolicyNames == {PortAO, PortBI, PortAM}
PolicyClients == {ClientA, ClientB}

\* str::find(':'): the 0-based index of the first ':' (Len(s) when there is none)
RECURSIVE FindFrom(_, _)
FindFrom(s, i) ==
    IF i > Len(s) THEN Len(s)
    ELSE IF s[i] = Colon THEN i - 1
    ELSE FindFrom(s, i + 1)

split_idx(s) == FindFrom(s, 1)

client_name(s) == SubSeq(s, 1, split_idx(s))

port_shortname(s) == SubSeq(s, split_idx(s) + 2, Len(s))

\* Result<PortFullname, NameError>
NameOk(buf, idx) == [ok |-> TRUE, err |-> "", buffer |-> buf, split_idx |-> idx]
NameErr(e) == [ok |-> FALSE, err |-> e, buffer |-> <<>>, split_idx |-> 0]

\* a PortFullname::new that splits at the last ':'
PortFullname_new_lastColon(buf) ==
    LET colons == {i \in DOMAIN buf : buf[i] = Colon}
        idx == (CHOOSE i \in colons : \A j \in colons : j <= i) - 1
    IN  IF Len(buf) > PORT_NAME_SIZE THEN NameErr("PortnameTooLong")
        ELSE IF colons = {} THEN NameErr("InvalidFullname")
        ELSE IF idx >= CLIENT_NAME_SIZE THEN NameErr("ClientnameTooLong")
        ELSE NameOk(buf, idx)

PortFullname_new(buf) ==
    IF Len(buf) > PORT_NAME_SIZE THEN NameErr("PortnameTooLong")
    ELSE IF split_idx(buf) = Len(buf) THEN NameErr("InvalidFullname")
    ELSE IF split_idx(buf) >= CLIENT_NAME_SIZE THEN NameErr("ClientnameTooLong")
    ELSE NameOk(buf, split_idx(buf))

\* self.buffer.split_at(self.split_idx).0
PortFullname_client_name(name) == SubSeq(name.buffer, 1, name.split_idx)

\* self.buffer.split_at(self.split_idx + 1).1
PortFullname_port_shortname(name) == SubSeq(name.buffer, name.split_idx + 2, Len(name.buffer))

\* a Serialize that writes the Display form of the client name only
Serialize_clientOnly(name) == PortFullname_client_name(name) \o <<Colon>>

\* serializer.serialize_str(self.buffer.as_ref())
Serialize(name) == name.buffer

\* String::deserialize, then Self::new(buffer)
Deserialize(str) == PortFullname_new(str)

\* format!("{}:{}", name, shortname)
FormatFullname(name, shortname) == name \o <<Colon>> \o shortname

\* derived Ord of PortFullname: the buffers compared bytewise
RECURSIVE LexLessFrom(_, _, _)
LexLessFrom(s, t, i) ==
    IF i > Len(t) THEN FALSE
    ELSE IF i > Len(s) THEN TRUE
    ELSE IF s[i] < t[i] THEN TRUE
    ELSE IF s[i] > t[i] THEN FALSE
    ELSE LexLessFrom(s, t, i + 1)

NameLess(s, t) == LexLessFrom(s, t, 1)

\* a min that returns its first argument
NameMin_first(a, b) == a

NameMin(a, b) == IF NameLess(b, a) THEN b ELSE a

NameMax(a, b) == IF NameLess(b, a) THEN a ELSE b

\* derived Ord of (PortFullname, PortFullname)
PairLess(p, q) ==
    \/ NameLess(p[1], q[1])
    \/ p[1] = q[1] /\ NameLess(p[2], q[2])

-----------------------------------------------------------------------------
(* LockStatus: a #[repr(u8)] enum *)

None == 0
Force == 1
Block == 2
Full == 3

LockStatus == {None, Force, Block, Full}

with_block(s) ==
    CASE s \in {None, Block} -> Block
      [] s \in {Force, Full} -> Full

with_force(s) ==
    CASE s \in {None, Force} -> Block
      [] s \in {Block, Full} -> Full

should_force(s) ==
    CASE s \in {None, Block} -> FALSE
      [] s \in {Force, Full} -> TRUE

should_block(s) ==
    CASE s \in {None, Force} -> FALSE
      [] s \in {Block, Full} -> TRUE

as_bits(s) == s

\* bits & mask != 0 on the two-bit representation
HasBit(bits, mask) == (bits \div mask) % 2 = 1

-----------------------------------------------------------------------------
(* LockConfig *)

\* An Option<T> is the empty set or a singleton.
Some(x) == {x}
Nothing == {}

EmptyMap == [k \in {} |-> None]

MapInsert(m, k, v) == [x \in DOMAIN m \cup {k} |-> IF x = k THEN v ELSE m[x]]

\* LockConfig::new()
LockConfig_new ==
    [client_locks |-> EmptyMap, port_locks |-> EmptyMap, connections_list |-> <<>>]

\* slice::binary_search on a list of name pairs: [found, idx]
RECURSIVE PairSearchLoop(_, _, _, _)
PairSearchLoop(list, key, base, size) ==
    IF size > 1
    THEN LET half == size \div 2
             mid  == base + half
         IN  PairSearchLoop(list, key,
                            IF PairLess(key, list[mid + 1]) THEN base ELSE mid,
                            size - half)
    ELSE IF list[base + 1] = key THEN [found |-> TRUE, idx |-> base]
    ELSE [found |-> FALSE,
          idx |-> base + (IF PairLess(list[base + 1], key) THEN 1 ELSE 0)]

pair_binary_search(list, key) ==
    IF Len(list) = 0 THEN [found |-> FALSE, idx |-> 0]
    ELSE PairSearchLoop(list, key, 0, Len(list))

VecInsert_push(v, idx, x) == Append(v, x)

\* Vec::insert(idx, x)
VecInsert(v, idx, x) == SubSeq(v, 1, idx) \o <<x>> \o SubSeq(v, idx + 1, Len(v))

\* Vec::remove(idx)
VecRemove(v, idx) == SubSeq(v, 1, idx) \o SubSeq(v, idx + 2, Len(v))

client_status(conf, client) ==
    IF client \in DOMAIN conf.client_locks THEN conf.client_locks[client] ELSE None

\* a port_status that joins the port's entry with the client's
port_status_merged(conf, port) ==
    LET c == client_status(conf, client_name(port))
        e == IF port \in DOMAIN conf.port_locks THEN conf.port_locks[port] ELSE None
    IN  (IF should_force(c) \/ should_force(e) THEN Force ELSE None)
          + (IF should_block(c) \/ should_block(e) THEN Block ELSE None)

port_status(conf, port) ==
    IF port \in DOMAIN conf.port_locks
    THEN conf.port_locks[port]
    ELSE client_status(conf, client_name(port))

\* connection_status with the `!con_preexists` guard of the Block branch left out
connection_status_blocksDeclared(conf, a, b) ==
    LET con_key == <<NameMin(a, b), NameMax(a, b)>>
        con_preexists == pair_binary_search(conf.connections_list, con_key).found
        a_lock == port_status(conf, a)
        b_lock == port_status(conf, b)
    IN  IF con_preexists /\ (should_force(a_lock) \/ should_force(b_lock)) THEN Force
        ELSE IF should_block(a_lock) \/ should_block(b_lock) THEN Block
        ELSE None

\* a connection_status that sets the two bits of its result independently
connection_status_bitwise(conf, a, b) ==
    LET con_key == <<NameMin(a, b), NameMax(a, b)>>
        con_preexists == pair_binary_search(conf.connections_list, con_key).found
        a_lock == port_status(conf, a)
        b_lock == port_status(conf, b)
    IN  (IF con_preexists /\ (should_force(a_lock) \/ should_force(b_lock)) THEN Force ELSE None)
          + (IF should_block(a_lock) \/ should_block(b_lock) THEN Block ELSE None)

connection_status(conf, a, b) ==
    LET con_key == <<NameMin(a, b), NameMax(a, b)>>
        con_preexists == pair_binary_search(conf.connections_list, con_key).found
        a_lock == port_status(conf, a)
        b_lock == port_status(conf, b)
    IN  IF con_preexists /\ (should_force(a_lock) \/ should_force(b_lock)) THEN Force
        ELSE IF ~con_preexists /\ (should_block(a_lock) \/ should_block(b_lock)) THEN Block
        ELSE None

\* a forced_connections() without its filter
forced_connections_unfiltered(conf) == conf.connections_list

\* the pairs forced_connections() yields, in list order
forced_connections(conf) ==
    SelectSeq(conf.connections_list,
              LAMBDA p : should_force(connection_status(conf, p[1], p[2])))

-----------------------------------------------------------------------------
(* From<file::ConfigFile> for LockConfig *)

\* an insertion that keeps the pair in the order it was declared
InsertConnection_asDeclared(list, fullname, other) ==
    LET connection == <<fullname, other>>
        r == pair_binary_search(list, connection)
    IN  IF r.found THEN list ELSE VecInsert(list, r.idx, connection)

\* the body of `for other in port_info.connections`
InsertConnection(list, fullname, other) ==
    LET connection == IF NameLess(other, fullname)
                      THEN <<other, fullname>>
                      ELSE <<fullname, other>>
        r == pair_binary_search(list, connection)
    IN  IF r.found THEN list ELSE VecInsert(list, r.idx, connection)

RECURSIVE InsertConnections(_, _, _)
InsertConnections(list, fullname, others) ==
    IF others = <<>> THEN list
    ELSE InsertConnections(InsertConnection(list, fullname, Head(others)),
                           fullname, Tail(others))

\* one port (nested under a client, or keyed by its full name)
LoadPort(conf, fullname, info) ==
    [conf EXCEPT
        !.port_locks = IF info.lock = Nothing THEN @
                       ELSE MapInsert(@, fullname, CHOOSE l \in info.lock : TRUE),
        !.connections_list = InsertConnections(@, fullname, info.connections)]

\* `for (shortname, port_info) in info.ports`: the ports still to process
RECURSIVE LoadClientPorts(_, _, _, _)
LoadClientPorts(conf, name, nested, left) ==
    IF left = {} THEN conf
    ELSE LET shortname == CHOOSE sn \in left : TRUE
         IN  LoadClientPorts(
                 LoadPort(conf, FormatFullname(name, shortname), nested[shortname]),
                 name, nested, left \ {shortname})

\* one iteration of `for ent in fl.entries`
LoadEntry(conf, ent) ==
    IF ent.kind = "Client"
    THEN LET c1 == [conf EXCEPT
                       !.client_locks =
                           IF ent.info.lock = Nothing THEN @
                           ELSE MapInsert(@, ent.name, CHOOSE l \in ent.info.lock : TRUE)]
         IN  LoadClientPorts(c1, ent.name, ent.info.ports, DOMAIN ent.info.ports)
    ELSE LoadPort(conf, ent.name, ent.info)

RECURSIVE LoadEntries(_, _)
LoadEntries(conf, entries) ==
    IF entries = <<>> THEN conf
    ELSE LoadEntries(LoadEntry(conf, Head(entries)), Tail(entries))

FromConfigFile(fl) == LoadEntries(LockConfig_new, fl)

-----------------------------------------------------------------------------
(* From<LockConfig> for file::ConfigFile *)

\* PortInfo::default()
PortInfo_default == [lock |-> Nothing, connections |-> <<>>]

\* ClientInfo::new().with_lock(lock)
ClientInfo_with_lock(lock) == [lock |-> Some(lock), ports |-> EmptyMap]

EntryOrDefault(m, k) == IF k \in DOMAIN m THEN m[k] ELSE PortInfo_default

\* the body of `for (port_name, lock) in conf.port_locks`
StorePortLock(st, port_name, lock) ==
    LET c == client_name(port_name)
        short == port_shortname(port_name)
    IN  IF c \in DOMAIN st.client_map
        THEN [st EXCEPT !.client_map[c].ports =
                 MapInsert(@, short, [EntryOrDefault(@, short) EXCEPT !.lock = Some(lock)])]
        ELSE [st EXCEPT !.port_map =
                 MapInsert(@, port_name,
                           [EntryOrDefault(@, port_name) EXCEPT !.lock = Some(lock)])]

RECURSIVE StorePortLocks(_, _, _)
StorePortLocks(st, port_locks, left) ==
    IF left = {} THEN st
    ELSE LET p == CHOOSE x \in left : TRUE
         IN  StorePortLocks(StorePortLock(st, p, port_locks[p]), port_locks, left \ {p})

\* first_ent / second_ent: push `other` onto the entry of `owner`, when one exists
PushConnection(st, owner, other) ==
    LET c == client_name(owner)
        short == port_shortname(owner)
    IN  IF c \in DOMAIN st.client_map /\ short \in DOMAIN st.client_map[c].ports
        THEN [st EXCEPT !.client_map[c].ports[short].connections = Append(@, other)]
        ELSE IF owner \in DOMAIN st.port_map
        THEN [st EXCEPT !.port_map[owner].connections = Append(@, other)]
        ELSE st

\* the body of `for (first, second) in conf.connections_list`
RECURSIVE StoreConnections(_, _)
StoreConnections(st, list) ==
    IF list = <<>> THEN st
    ELSE LET p == Head(list)
         IN  StoreConnections(PushConnection(PushConnection(st, p[1], p[2]), p[2], p[1]),
                              Tail(list))

\* client_map and port_map as they stand before `entries` is collected
StoreMaps(conf) ==
    LET st0 == [client_map |-> [c \in DOMAIN conf.client_locks |->
                                   ClientInfo_with_lock(conf.client_locks[c])],
                port_map |-> EmptyMap]
        st1 == StorePortLocks(st0, conf.port_locks, DOMAIN conf.port_locks)
    IN  StoreConnections(st1, conf.connections_list)

\* the orders in which a HashMap's into_iter() may yield the keys
Orders(S) == {f \in [1..Cardinality(S) -> S] : \A i, j \in DOMAIN f : i # j => f[i] # f[j]}

\* the ConfigFiles the conversion may produce: client_ents.chain(port_ents)
ToConfigFiles(conf) ==
    LET st == StoreMaps(conf)
    IN  {[i \in DOMAIN co |-> [kind |-> "Client", name |-> co[i],
                               info |-> st.client_map[co[i]]]]
         \o [i \in DOMAIN po |-> [kind |-> "Port", name |-> po[i],
                                  info |-> st.port_map[po[i]]]] :
            co \in Orders(DOMAIN st.client_map), po \in Orders(DOMAIN st.port_map)}

-----------------------------------------------------------------------------
(* The policy documents of the model *)

OptionalLocks == {Nothing} \cup {Some(l) : l \in LockStatus}

SeqsUpTo(S, n) == UNION {[1..k -> S] : k \in 0..n}

\* what a document may say of port `p`: a lock, and connections to other ports
PortInfos(p) ==
    [lock : OptionalLocks, connections : SeqsUpTo(PolicyNames \ {p}, MaxConns)]

\* the short names under which the document may nest a port of `client`
ShortNames(client) == {port_shortname(p) : p \in {q \in PolicyNames : client_name(q) = client}}

NestedPorts(client) ==
    UNION {{f \in [D -> UNION {PortInfos(p) : p \in PolicyNames}] :
               \A sn \in D : f[sn] \in PortInfos(FormatFullname(client, sn))} :
              D \in {E \in SUBSET ShortNames(client) : Cardinality(E) <= MaxNested}}

ClientEntries ==
    UNION {[kind : {"Client"}, name : {c},
            info : [lock : OptionalLocks, ports : NestedPorts(c)]] : c \in PolicyClients}

PortEntries ==
    UNION {[kind : {"Port"}, name : {p}, info : PortInfos(p)] : p \in PolicyNames}

-----------------------------------------------------------------------------
(* The JACK server: the ports other clients register and connect *)

GraphNames == {PortAO, PortBI, PortAM}

\* two audio outputs and an audio input: two connections may exist at a time
PatchNames == {PortAO, PortBI, PortBO}

\* port.flags().contains(PortFlags::IS_INPUT)
IsInput(n) == n \in {PortBI, PortAM}

\* port.port_type(), lower-cased, as the words it contains
PortType(n) == IF n = PortAM THEN {"8", "bit", "raw", "midi"}
               ELSE {"32", "bit", "float", "mono", "audio"}

Range(q) == {q[i] : i \in DOMAIN q}

\* the lists without repetition of at most n names
Listings(n) ==
    {q \in SeqsUpTo(GraphNames, n) : \A i, j \in DOMAIN q : i # j => q[i] # q[j]}

PatchListings(n) ==
    {q \in SeqsUpTo(PatchNames, n) : \A i, j \in DOMAIN q : i # j => q[i] # q[j]}

\* connect_ports_by_name succeeds: an output and an input of one type, not yet connected
ExtConnectOk(src, dst) ==
    /\ src \in Range(extPorts) /\ dst \in Range(extPorts)
    /\ ~IsInput(src) /\ IsInput(dst)
    /\ PortType(src) = PortType(dst)
    /\ <<src, dst>> \notin extConns

\* disconnect_ports_by_name succeeds: the connection exists
ExtDisconnectOk(src, dst) == <<src, dst>> \in extConns

\* port_a.is_connected_to(port_b)
ExtIsConnected(a, b) == <<a, b>> \in extConns \/ <<b, a>> \in extConns

\* Port::is_connected_to on the connections `conns` of the server
ExtIsConnectedIn(conns, a, b) == <<a, b>> \in conns \/ <<b, a>> \in conns

\* the connections a set of registered ports admits
Connectable(present) ==
    {c \in present \X present :
        ~IsInput(c[1]) /\ IsInput(c[2]) /\ PortType(c[1]) = PortType(c[2])}

-----------------------------------------------------------------------------
(* Notifier *)

\* a set() whose store is dropped
Notifier_set_dropped(flag) == flag

\* a set() that flips the flag
Notifier_set_toggling(flag) == ~flag

\* set(): self.rf.store(true, Release)
Notifier_set(flag) == TRUE

\* reset(): self.rf.store(false, SeqCst)
Notifier_reset(flag) == FALSE

\* check(): self.rf.load(Relaxed)
Notifier_check(flag) == flag

-----------------------------------------------------------------------------
(* JackGraph: the cached ports and connections *)

\* the PortData update() builds for a port
PortDataOf(n) ==
    [name |-> n,
     direction |-> IF IsInput(n) THEN "In" ELSE "Out",
     category |-> IF "midi" \in PortType(n) THEN "Midi"
                  ELSE IF "audio" \in PortType(n) THEN "Audio"
                  ELSE "Unknown"]

\* the test of the direction, inverted
is_output_inverted(direction) == direction = "In"

is_output(direction) == direction = "Out"

\* derived Ord of (usize, usize)
IdxLess(p, q) == p[1] < q[1] \/ (p[1] = q[1] /\ p[2] < q[2])

\* slice::binary_search on the connection list: [found, idx]
RECURSIVE IdxSearchLoop(_, _, _, _)
IdxSearchLoop(list, key, base, size) ==
    IF size > 1
    THEN LET half == size \div 2
             mid  == base + half
         IN  IdxSearchLoop(list, key,
                           IF IdxLess(key, list[mid + 1]) THEN base ELSE mid,
                           size - half)
    ELSE IF list[base + 1] = key THEN [found |-> TRUE, idx |-> base]
    ELSE [found |-> FALSE,
          idx |-> base + (IF IdxLess(list[base + 1], key) THEN 1 ELSE 0)]

idx_binary_search(list, key) ==
    IF Len(list) = 0 THEN [found |-> FALSE, idx |-> 0]
    ELSE IdxSearchLoop(list, key, 0, Len(list))

\* the loop of connect() and disconnect() that looks both names up: [s, d]
RECURSIVE ScanPorts(_, _, _, _, _)
ScanPorts(ps, source, dest, i, acc) ==
    IF i > Len(ps) THEN acc
    ELSE LET acc1 == IF source = ps[i].name THEN [acc EXCEPT !.s = Some(i - 1)]
                     ELSE IF dest = ps[i].name THEN [acc EXCEPT !.d = Some(i - 1)]
                     ELSE acc
         IN  IF acc1.s # Nothing /\ acc1.d # Nothing THEN acc1
             ELSE ScanPorts(ps, source, dest, i + 1, acc1)

FindBoth(ps, source, dest) == ScanPorts(ps, source, dest, 1, [s |-> Nothing, d |-> Nothing])

TheOne(opt) == CHOOSE x \in opt : TRUE

IdxMin(a, b) == IF a < b THEN a ELSE b

IdxMax(a, b) == IF a < b THEN b ELSE a

\* a connect() that stores the pair as (source, dest)
PatchConnect_asGiven(ps, conns, source, dest) ==
    LET r == FindBoth(ps, source, dest)
    IN  IF r.s # Nothing /\ r.d # Nothing
        THEN LET key == <<TheOne(r.s), TheOne(r.d)>>
                 f == idx_binary_search(conns, key)
             IN  [patched |-> TRUE,
                  connections |-> IF f.found THEN conns ELSE VecInsert(conns, f.idx, key)]
        ELSE [patched |-> FALSE, connections |-> conns]

\* a connect() that reports the cache patched and leaves it alone
PatchConnect_untouched(ps, conns, source, dest) ==
    [patched |-> TRUE, connections |-> conns]

\* connect(), after the external call succeeded: [patched, connections]
PatchConnect(ps, conns, source, dest) ==
    LET r == FindBoth(ps, source, dest)
    IN  IF r.s # Nothing /\ r.d # Nothing
        THEN LET source_idx == TheOne(r.s)
                 dest_idx == TheOne(r.d)
                 key == IF source_idx < dest_idx THEN <<source_idx, dest_idx>>
                        ELSE <<dest_idx, source_idx>>
                 f == idx_binary_search(conns, key)
             IN  [patched |-> TRUE,
                  connections |-> IF f.found THEN conns ELSE VecInsert(conns, f.idx, key)]
        ELSE [patched |-> FALSE, connections |-> conns]

\* disconnect(), after the external call succeeded: [patched, connections]
PatchDisconnect(ps, conns, source, dest) ==
    LET r == FindBoth(ps, source, dest)
    IN  IF r.s # Nothing /\ r.d # Nothing
        THEN LET key == <<IdxMin(TheOne(r.s), TheOne(r.d)), IdxMax(TheOne(r.s), TheOne(r.d))>>
                 f == idx_binary_search(conns, key)
             IN  IF f.found
                 THEN [patched |-> TRUE, connections |-> VecRemove(conns, f.idx)]
                 ELSE [patched |-> FALSE, connections |-> conns]
        ELSE [patched |-> FALSE, connections |-> conns]

\* the loop of is_connected() from the port at index i on: [a, b]
RECURSIVE IsConnectedScan(_, _, _, _, _)
IsConnectedScan(ps, a, b, i, acc) ==
    IF i > Len(ps) THEN acc
    ELSE LET isA == ps[i].name = a
             isB == ps[i].name = b
             acc1 == IF isA THEN [acc EXCEPT !.a = Some(i - 1)] ELSE acc
             acc2 == IF isB THEN [acc1 EXCEPT !.b = Some(i - 1)] ELSE acc1
         IN  IF isA /\ acc1.b # Nothing THEN acc1
             ELSE IF isB /\ acc2.a # Nothing THEN acc2
             ELSE IsConnectedScan(ps, a, b, i + 1, acc2)

\* is_connected(a, b)
is_connected(ps, conns, a, b) ==
    LET r == IsConnectedScan(ps, a, b, 1, [a |-> Nothing, b |-> Nothing])
    IN  IF r.a = Nothing \/ r.b = Nothing THEN FALSE
        ELSE LET aidx == TheOne(r.a)
                 bidx == TheOne(r.b)
                 key == IF aidx < bidx THEN <<aidx, bidx>> ELSE <<bidx, aidx>>
             IN  idx_binary_search(conns, key).found

\* port_by_name(): the cached data of the port, if any
port_by_name(ps, name) == {ps[i] : i \in {j \in DOMAIN ps : ps[j].name = name}}

\* ports.get(idx)
VecGet(v, idx) == IF idx < Len(v) THEN Some(v[idx + 1]) ELSE Nothing

\* all_connections(): the pairs of PortData, in list order
RECURSIVE all_connections(_, _)
all_connections(ps, conns) ==
    IF conns = <<>> THEN <<>>
    ELSE LET a == VecGet(ps, Head(conns)[1])
             b == VecGet(ps, Head(conns)[2])
             rest == all_connections(ps, Tail(conns))
         IN  IF a = Nothing \/ b = Nothing THEN rest
             ELSE <<<<TheOne(a), TheOne(b)>>>> \o rest

\* port_connections(name): the cached ports connected to the named one
port_connections(ps, conns, name) ==
    LET found == {i \in DOMAIN ps : ps[i].name = name}
    IN  IF found = {} THEN {}
        ELSE LET idx == (CHOOSE i \in found : \A j \in found : i <= j) - 1
                 others == {IF conns[k][1] = idx THEN conns[k][2] ELSE conns[k][1] :
                               k \in {m \in DOMAIN conns : idx \in {conns[m][1], conns[m][2]}}}
             IN  UNION {VecGet(ps, o) : o \in others}

\* the filter of all_clients() from the port at index i on: a client name passes
\* when it differs from cur_client, which it then replaces
RECURSIVE AllClientsRest(_, _, _)
AllClientsRest(ps, i, cur_client) ==
    IF i > Len(ps) THEN <<>>
    ELSE LET cur == client_name(ps[i].name)
         IN  IF Some(cur) = cur_client THEN AllClientsRest(ps, i + 1, cur_client)
             ELSE <<cur>> \o AllClientsRest(ps, i + 1, Some(cur))

\* all_clients(): first_client.into_iter().chain(rest_iter)
all_clients(ps) ==
    LET first_client == IF ps = <<>> THEN Nothing ELSE Some(client_name(ps[1].name))
    IN  (IF first_client = Nothing THEN <<>> ELSE <<TheOne(first_client)>>)
            \o AllClientsRest(ps, 1, first_client)

\* client_ports(client): skip_while(!= client), then take_while(== client)
RECURSIVE ClientPortsFrom(_, _, _, _)
ClientPortsFrom(ps, client, i, taking) ==
    IF i > Len(ps) THEN <<>>
    ELSE IF client_name(ps[i].name) = client
    THEN <<ps[i]>> \o ClientPortsFrom(ps, client, i + 1, TRUE)
    ELSE IF taking THEN <<>>
    ELSE ClientPortsFrom(ps, client, i + 1, FALSE)

client_ports(ps, client) == ClientPortsFrom(ps, client, 1, FALSE)

-----------------------------------------------------------------------------
(* Loading, querying and storing a policy *)

NoProbe == [op |-> "none", a |-> <<>>, b |-> <<>>, res |-> None]

InitLock ==
    /\ retvl = LockConfig_new
    /\ nLoaded = 0
    /\ lphase = "loading"
    /\ file = <<>>
    /\ reloaded = LockConfig_new
    /\ probe = NoProbe

\* the lattice is not exercised by the other specifications
IdleChain == chain = <<>>

LoadNextEntry ==
    /\ lphase = "loading"
    /\ nLoaded < MaxEntries
    /\ \E ent \in ClientEntries \cup PortEntries : retvl' = LoadEntry(retvl, ent)
    /\ nLoaded' = nLoaded + 1
    /\ UNCHANGED <<lphase, file, reloaded, probe, chain, graphVars, stateVars, waitVars, daemonVars, nameVars, restVars>>

LoadDone ==
    /\ lphase = "loading"
    /\ lphase' = "loaded"
    /\ UNCHANGED <<retvl, nLoaded, file, reloaded, probe, chain, graphVars, stateVars, waitVars, daemonVars, nameVars, restVars>>

QueryConnection ==
    /\ lphase = "loaded"
    /\ \E a, b \in PolicyNames :
          probe' = [op |-> "connection_status", a |-> a, b |-> b,
                    res |-> connection_status(retvl, a, b)]
    /\ UNCHANGED <<retvl, nLoaded, lphase, file, reloaded, chain, graphVars, stateVars, waitVars, daemonVars, nameVars, restVars>>

QueryPort ==
    /\ lphase = "loaded"
    /\ \E port \in PolicyNames :
          probe' = [op |-> "port_status", a |-> port, b |-> <<>>,
                    res |-> port_status(retvl, port)]
    /\ UNCHANGED <<retvl, nLoaded, lphase, file, reloaded, chain, graphVars, stateVars,
                   waitVars, daemonVars, nameVars, restVars>>

QueryForced ==
    /\ lphase = "loaded"
    /\ probe' = [op |-> "forced_connections", a |-> <<>>, b |-> <<>>,
                 res |-> forced_connections(retvl)]
    /\ UNCHANGED <<retvl, nLoaded, lphase, file, reloaded, chain, graphVars, stateVars,
                   waitVars, daemonVars, nameVars, restVars>>

Store ==
    /\ lphase = "loaded"
    /\ file' \in ToConfigFiles(retvl)
    /\ lphase' = "stored"
    /\ probe' = NoProbe
    /\ UNCHANGED <<retvl, nLoaded, reloaded, chain, graphVars, stateVars, waitVars, daemonVars, nameVars, restVars>>

Reload ==
    /\ lphase = "stored"
    /\ reloaded' = FromConfigFile(file)
    /\ lphase' = "reloaded"
    /\ UNCHANGED <<retvl, nLoaded, file, probe, chain, graphVars, stateVars, waitVars, daemonVars, nameVars, restVars>>

NextLock ==
    \/ LoadNextEntry \/ LoadDone \/ QueryConnection \/ QueryPort \/ QueryForced
    \/ Store \/ Reload

-----------------------------------------------------------------------------
(* Successive with_force / with_block calls on a LockStatus *)

InitChain == chain \in {<<[op |-> "init", val |-> s]>> : s \in LockStatus}

Last(q) == q[Len(q)]

ApplyWithForce ==
    /\ Len(chain) <= MaxOps
    /\ chain' = Append(chain, [op |-> "with_force", val |-> with_force(Last(chain).val)])
    /\ UNCHANGED <<lockVars, graphVars, stateVars, waitVars, daemonVars, nameVars, restVars>>

ApplyWithBlock ==
    /\ Len(chain) <= MaxOps
    /\ chain' = Append(chain, [op |-> "with_block", val |-> with_block(Last(chain).val)])
    /\ UNCHANGED <<lockVars, graphVars, stateVars, waitVars, daemonVars, nameVars, restVars>>

NextLattice == ApplyWithForce \/ ApplyWithBlock

-----------------------------------------------------------------------------
(* JackGraph::update(), one external call per step *)

NoCall == [op |-> "none", ok |-> TRUE, upd |-> "none"]

\* JackGraph::new() up to its call of update(): nothing cached yet
InitJackGraph ==
    /\ rf = FALSE
    /\ ports = <<>>
    /\ connections = <<>>
    /\ pc = "upd_reset"
    /\ caller = "new"
    /\ call_args = <<>>
    /\ was_stale = FALSE
    /\ port_names = <<>>
    /\ port_a_idx = 0
    /\ port_b_idx = 0
    /\ last = NoCall
    /\ saved = <<<<>>, <<>>>>
    /\ allOk = TRUE

\* the server when the client is activated
InitServer(changes) ==
    /\ extPorts \in Listings(MaxPorts)
    /\ extConns \in SUBSET Connectable(Range(extPorts))
    /\ pending = 0
    /\ extLeft = changes

\* the server with the ports of PatchNames
InitPatchServer ==
    /\ extPorts \in PatchListings(MaxPorts)
    /\ extConns \in SUBSET Connectable(Range(extPorts))
    /\ pending = 0
    /\ extLeft = MaxExt

\* update() is entered by `op`
EnterUpdate(op) ==
    /\ pc' = "upd_reset"
    /\ caller' = op
    /\ saved' = <<ports, connections>>
    /\ UNCHANGED was_stale

\* self.update_flag.reset()
UpdateReset ==
    /\ pc = "upd_reset"
    /\ rf' = Notifier_reset(rf)
    /\ pc' = "upd_list"
    /\ was_stale' = Notifier_check(rf)
    /\ UNCHANGED <<extVars, cacheVars, caller, call_args, port_names, port_a_idx, port_b_idx,
                   histVars, stateVars, lockVars, chain, waitVars, daemonVars, nameVars, restVars>>

\* PortFullname::try_from accepts the listed name
ValidFullname(n) == split_idx(n) < Len(n)

\* client.ports(..), the names validated, then ports.clear() and connections.clear()
UpdateList ==
    /\ pc = "upd_list"
    /\ IF \E i \in DOMAIN extPorts : ~ValidFullname(extPorts[i])
       THEN /\ pc' = "upd_err"
            /\ UNCHANGED <<cacheVars, port_names, port_a_idx, port_b_idx>>
       ELSE /\ port_names' = extPorts
            /\ ports' = <<>>
            /\ connections' = <<>>
            /\ port_a_idx' = 0
            /\ port_b_idx' = 0
            /\ pc' = IF Len(extPorts) = 0 THEN "upd_ok" ELSE "upd_port"
    /\ UNCHANGED <<extVars, rf, caller, call_args, was_stale, histVars, stateVars, lockVars, chain, waitVars, daemonVars, nameVars, restVars>>

\* where the outer loop goes after the port at index i
AfterPort(i) == IF i + 1 < Len(port_names) THEN "upd_port" ELSE "upd_ok"

\* the outer loop at port_a_idx: port_by_name, flags, port_type()?, ports.push
UpdatePort(fault) ==
    /\ pc = "upd_port"
    /\ LET port_a_name == port_names[port_a_idx + 1]
       IN  IF port_a_name \notin Range(extPorts)
           THEN \* port_by_name gave None: filter_map drops the port
                /\ port_a_idx' = port_a_idx + 1
                /\ pc' = AfterPort(port_a_idx)
                /\ UNCHANGED <<cacheVars, port_b_idx>>
           ELSE IF fault
           THEN /\ pc' = "upd_err"
                /\ UNCHANGED <<cacheVars, port_a_idx, port_b_idx>>
           ELSE /\ ports' = Append(ports, PortDataOf(port_a_name))
                /\ port_b_idx' = port_a_idx + 1
                /\ IF port_a_idx + 1 < Len(port_names)
                   THEN pc' = "upd_conn" /\ UNCHANGED port_a_idx
                   ELSE pc' = "upd_ok" /\ port_a_idx' = port_a_idx + 1
                /\ UNCHANGED connections
    /\ UNCHANGED <<extVars, rf, caller, call_args, was_stale, port_names, histVars, stateVars, lockVars, chain, waitVars, daemonVars, nameVars, restVars>>

\* the inner loop at port_b_idx: port_a.is_connected_to(port_b)?, connections.push
UpdateConn(fault) ==
    /\ pc = "upd_conn"
    /\ IF fault
       THEN /\ pc' = "upd_err"
            /\ UNCHANGED <<connections, port_a_idx, port_b_idx>>
       ELSE /\ connections' =
                  IF ExtIsConnected(port_names[port_a_idx + 1], port_names[port_b_idx + 1])
                  THEN Append(connections, <<port_a_idx, port_b_idx>>)
                  ELSE connections
            /\ IF port_b_idx + 1 < Len(port_names)
               THEN /\ port_b_idx' = port_b_idx + 1
                    /\ UNCHANGED <<pc, port_a_idx>>
               ELSE /\ port_a_idx' = port_a_idx + 1
                    /\ pc' = AfterPort(port_a_idx)
                    /\ UNCHANGED port_b_idx
    /\ UNCHANGED <<extVars, rf, ports, caller, call_args, was_stale, port_names, histVars, stateVars,
                   lockVars, chain, waitVars, daemonVars, nameVars, restVars>>

\* update() returns to its caller; new() fails when its update() does
UpdateReturn ==
    /\ pc \in {"upd_ok", "upd_err"}
    /\ LET ok == pc = "upd_ok"
       IN  /\ last' = [op |-> caller, ok |-> ok, upd |-> IF ok THEN "ok" ELSE "err"]
           /\ allOk' = (allOk /\ ok)
           /\ pc' = IF caller = "new" /\ ~ok THEN "failed" ELSE "idle"
    /\ call_args' = <<>>
    /\ was_stale' = FALSE
    /\ UNCHANGED <<extVars, rf, cacheVars, caller, port_names, port_a_idx, port_b_idx,
                   saved, stateVars, lockVars, chain, waitVars, daemonVars, nameVars, restVars>>

-----------------------------------------------------------------------------
(* JackGraph::connect() and disconnect() *)

\* an error path that drops the cached connections
ExternalCallFailed_clearing(op) ==
    /\ last' = [op |-> op, ok |-> FALSE, upd |-> "none"]
    /\ connections' = <<>>
    /\ UNCHANGED <<extVars, rf, ports, updVars, saved, allOk>>

\* the `?` on connect_ports_by_name / disconnect_ports_by_name returns the error
ExternalCallFailed(op) ==
    /\ last' = [op |-> op, ok |-> FALSE, upd |-> "none"]
    /\ UNCHANGED <<extVars, rf, cacheVars, updVars, saved, allOk>>

\* connect(source, dest) or disconnect(source, dest), called with the graph at rest
GraphCall(op, source, dest) ==
    LET extOk == IF op = "connect" THEN ExtConnectOk(source, dest)
                 ELSE ExtDisconnectOk(source, dest)
        patch == IF op = "connect" THEN PatchConnect(ports, connections, source, dest)
                 ELSE PatchDisconnect(ports, connections, source, dest)
    IN  IF ~extOk
        THEN ExternalCallFailed(op)
        ELSE /\ extConns' = IF op = "connect" THEN extConns \cup {<<source, dest>>}
                            ELSE extConns \ {<<source, dest>>}
             /\ pending' = pending + 1
             /\ UNCHANGED <<extPorts, extLeft, rf, ports>>
             /\ IF patch.patched
                THEN /\ connections' = patch.connections
                     /\ last' = [op |-> op, ok |-> TRUE, upd |-> "none"]
                     /\ UNCHANGED <<updVars, saved, allOk>>
                ELSE /\ EnterUpdate(op)
                     /\ call_args' = <<source, dest>>
                     /\ UNCHANGED <<connections, port_names, port_a_idx, port_b_idx,
                                    last, allOk>>

\* the names the owner and the other clients may pass to the server
KnownNames == GraphNames \cup Range(extPorts)

\* the owner of the graph is between two calls
AtRest == pc = "idle" /\ apc = "none" /\ ~(last.op = "reload" /\ last.ok)

CallUpdate ==
    /\ AtRest
    /\ EnterUpdate("update")
    /\ call_args' = <<>>
    /\ passes' = 0
    /\ UNCHANGED <<extVars, rf, cacheVars, port_names, port_a_idx, port_b_idx,
                   last, allOk, config, config_path, apc, todo, forceIdx, calls, lockVars, chain, waitVars, daemonVars, nameVars, restVars>>

CallConnect ==
    /\ AtRest
    /\ pending < MaxPending
    /\ \E source, dest \in KnownNames : GraphCall("connect", source, dest)
    /\ passes' = 0
    /\ UNCHANGED <<config, config_path, apc, todo, forceIdx, calls, lockVars, chain, waitVars, daemonVars, nameVars, restVars>>

CallDisconnect ==
    /\ AtRest
    /\ pending < MaxPending
    /\ \E source, dest \in KnownNames : GraphCall("disconnect", source, dest)
    /\ passes' = 0
    /\ UNCHANGED <<config, config_path, apc, todo, forceIdx, calls, lockVars, chain, waitVars, daemonVars, nameVars, restVars>>

-----------------------------------------------------------------------------
(* The notification thread and the other clients of the server *)

\* a NotificationHandler callback runs: self.set()
Deliver ==
    /\ pending > 0
    /\ pending' = pending - 1
    /\ rf' = Notifier_set(rf)
    /\ UNCHANGED <<extPorts, extConns, extLeft, cacheVars, updVars, histVars,
                   stateVars, lockVars, chain, waitVars, daemonVars, nameVars, restVars>>

\* every change of the graph raises a callback
ExtChanges ==
    /\ extLeft > 0
    /\ pending < MaxPending
    /\ extLeft' = extLeft - 1
    /\ pending' = pending + 1
    /\ UNCHANGED <<rf, cacheVars, updVars, histVars, stateVars, lockVars, chain, waitVars, daemonVars, nameVars, restVars>>

ExtRegister ==
    /\ ExtChanges
    /\ \E n \in GraphNames \ Range(extPorts) : extPorts' = Append(extPorts, n)
    /\ UNCHANGED extConns

ExtUnregister ==
    /\ ExtChanges
    /\ \E i \in DOMAIN extPorts :
          /\ extPorts' = VecRemove(extPorts, i - 1)
          /\ extConns' = {c \in extConns : extPorts[i] \notin {c[1], c[2]}}

ExtConnect ==
    /\ ExtChanges
    /\ \E source, dest \in KnownNames :
          /\ ExtConnectOk(source, dest)
          /\ extConns' = extConns \cup {<<source, dest>>}
    /\ UNCHANGED extPorts

ExtDisconnect ==
    /\ ExtChanges
    /\ \E c \in extConns : extConns' = extConns \ {c}
    /\ UNCHANGED extPorts

-----------------------------------------------------------------------------
(* TrejState::apply_config(), one graph call per step *)

\* the policies a reconciliation is run with: one port entry over the graph's names
ReconEntries ==
    UNION {[kind : {"Port"}, name : {p},
            info : [lock : OptionalLocks,
                    connections : SeqsUpTo(GraphNames \ {p}, MaxForced)]] : p \in GraphNames}

ReconPolicies == {FromConfigFile(<<e>>) : e \in ReconEntries}

\* every cached connection taken as one to disconnect
should_disconnect_all(conf, ps, conns) == all_connections(ps, conns)

\* should_disconnect: the cached connections the policy blocks
should_disconnect(conf, ps, conns) ==
    SelectSeq(all_connections(ps, conns),
              LAMBDA c : should_block(connection_status(conf, c[1].name, c[2].name)))

InApply == apc = "run" /\ pc = "idle" /\ last.ok

\* apply_config is entered and collects should_disconnect
ApplyBegin ==
    /\ apc' = "run"
    /\ todo' = should_disconnect(config, ports, connections)
    /\ forceIdx' = 0
    /\ calls' = <<>>
    /\ last' = [op |-> "apply_config", ok |-> TRUE, upd |-> "none"]
    /\ UNCHANGED <<extVars, rf, cacheVars, updVars, saved, allOk, config, config_path, passes,
                   lockVars, chain, waitVars, daemonVars, nameVars, restVars>>

ApplyStart ==
    /\ AtRest
    /\ passes < MaxPasses
    /\ ApplyBegin

\* for (a, b) in should_disconnect { graph.disconnect(..)? }
ApplyDisconnect ==
    /\ InApply
    /\ todo # <<>>
    /\ pending < MaxPending
    /\ LET a == Head(todo)[1]
           b == Head(todo)[2]
           src == IF is_output(a.direction) THEN a ELSE b
           dst == IF is_output(a.direction) THEN b ELSE a
       IN  /\ GraphCall("disconnect", src.name, dst.name)
           /\ calls' = Append(calls, [op |-> "disconnect", source |-> src.name,
                                      dest |-> dst.name])
    /\ todo' = Tail(todo)
    /\ UNCHANGED <<config, config_path, apc, forceIdx, passes, lockVars, chain, waitVars, daemonVars, nameVars, restVars>>

\* for (a, b) in conf.forced_connections() { .. graph.connect(src, dst)? }
ApplyForce ==
    /\ InApply
    /\ todo = <<>>
    /\ forceIdx < Len(forced_connections(config))
    /\ pending < MaxPending
    /\ LET a == forced_connections(config)[forceIdx + 1][1]
           b == forced_connections(config)[forceIdx + 1][2]
           adata == port_by_name(ports, a)
       IN  IF \/ adata = Nothing
              \/ port_by_name(ports, b) = Nothing
              \/ \E other \in port_connections(ports, connections, a) : other.name = b
           THEN \* continue
                UNCHANGED <<graphVars, calls>>
           ELSE LET src == IF is_output(TheOne(adata).direction) THEN a ELSE b
                    dst == IF is_output(TheOne(adata).direction) THEN b ELSE a
                IN  /\ GraphCall("connect", src, dst)
                    /\ calls' = Append(calls, [op |-> "connect", source |-> src,
                                               dest |-> dst])
    /\ forceIdx' = forceIdx + 1
    /\ UNCHANGED <<config, config_path, apc, todo, passes, lockVars, chain, waitVars, daemonVars, nameVars, restVars>>

\* apply_config returns: a `?` fired, or both loops are through
ApplyReturn ==
    /\ apc = "run"
    /\ pc = "idle"
    /\ ~last.ok \/ (todo = <<>> /\ forceIdx = Len(forced_connections(config)))
    /\ apc' = "none"
    /\ passes' = passes + 1
    /\ UNCHANGED <<graphVars, config, config_path, todo, forceIdx, calls, lockVars, chain, waitVars, daemonVars, nameVars, restVars>>

-----------------------------------------------------------------------------
(* TrejState::reload() *)

\* the policies the file holds at one time or another: a:o forced or blocked,
\* with or without its connection to b:i
FilePolicies ==
    {FromConfigFile(<<[kind |-> "Port", name |-> PortAO,
                       info |-> [lock |-> Some(l), connections |-> q]]>>)
     : l \in {Force, Block}, q \in {<<>>, <<PortBI>>}}

\* what reading and parsing the policy file gives: Nothing when open(),
\* read_to_string() or toml::from_str() fails
FileReads == {Nothing} \cup {Some(c) : c \in FilePolicies}

\* a reload_config that resets the policy before it reads the file
reload_config_resetting(conf, path, read) ==
    IF path = Nothing THEN [ok |-> TRUE, config |-> conf]
    ELSE IF read = Nothing THEN [ok |-> FALSE, config |-> LockConfig_new]
    ELSE [ok |-> TRUE, config |-> TheOne(read)]

\* reload_config(): [ok, config]
reload_config(conf, path, read) ==
    IF path = Nothing THEN [ok |-> TRUE, config |-> conf]
    ELSE IF read = Nothing THEN [ok |-> FALSE, config |-> conf]
    ELSE [ok |-> TRUE, config |-> TheOne(read)]

\* reload(): self.reload_config()?; then self.reload_graph() enters update()
ReloadStart ==
    /\ AtRest
    /\ passes < MaxPasses
    /\ \E read \in FileReads :
          LET r == reload_config(config, config_path, read)
          IN  /\ config' = r.config
              /\ IF r.ok
                 THEN /\ EnterUpdate("reload")
                      /\ call_args' = <<>>
                      /\ UNCHANGED <<port_names, port_a_idx, port_b_idx, last, allOk>>
                 ELSE /\ last' = [op |-> "reload", ok |-> FALSE, upd |-> "none"]
                      /\ UNCHANGED <<updVars, saved, allOk>>
    /\ UNCHANGED <<extVars, rf, cacheVars, config_path, apc, todo, forceIdx, calls, passes,
                   lockVars, chain, waitVars, daemonVars, nameVars, restVars>>

\* reload(): self.reload_graph()? returned Ok; self.apply_config() is entered
ReloadApply ==
    /\ pc = "idle" /\ apc = "none"
    /\ last = [op |-> "reload", ok |-> TRUE, upd |-> "ok"]
    /\ ApplyBegin

-----------------------------------------------------------------------------
(* Notifier::wait_timeout() against Notifier::set() *)

\* the threads that hold a handle() and wait on it
Waiters == {1, 2}

InWait(w) == wpc[w] \notin {"none", "returned"}

\* what the steps of wait_timeout() and set() leave alone
WaitFrame ==
    UNCHANGED <<lockVars, chain, extVars, cacheVars, updVars, histVars, stateVars,
                daemonVars, nameVars, restVars>>

\* wait_timeout(dur) is called
WaitCall(w) ==
    /\ ~InWait(w)
    /\ wpc' = [wpc EXCEPT ![w] = "check"]
    /\ \E d \in BOOLEAN : dur' = [dur EXCEPT ![w] = d]
    /\ UNCHANGED <<mtx, spc, sets, rf>>
    /\ WaitFrame

\* if self.check() { return; }
WaitCheck(w) ==
    /\ wpc[w] = "check"
    /\ wpc' = [wpc EXCEPT ![w] = IF Notifier_check(rf) THEN "returned" ELSE "try_lock"]
    /\ UNCHANGED <<mtx, dur, spc, sets, rf>>
    /\ WaitFrame

\* mtx.try_lock(): WouldBlock returns
WaitTryLock(w) ==
    /\ wpc[w] = "try_lock"
    /\ IF mtx = 0
       THEN mtx' = w /\ wpc' = [wpc EXCEPT ![w] = "pred"]
       ELSE wpc' = [wpc EXCEPT ![w] = "returned"] /\ UNCHANGED mtx
    /\ UNCHANGED <<dur, spc, sets, rf>>
    /\ WaitFrame

\* wait_while / wait_timeout_while test |_| !self.check() with the lock held;
\* when the loop ends the guard is dropped
WaitPred(w) ==
    /\ wpc[w] \in {"pred", "expired"}
    /\ IF wpc[w] = "pred" /\ ~Notifier_check(rf)
       THEN wpc' = [wpc EXCEPT ![w] = "park"] /\ UNCHANGED mtx
       ELSE wpc' = [wpc EXCEPT ![w] = "returned"] /\ mtx' = 0
    /\ UNCHANGED <<dur, spc, sets, rf>>
    /\ WaitFrame

\* Condvar::wait: the mutex is released and the thread blocks
WaitPark(w) ==
    /\ wpc[w] = "park"
    /\ mtx' = 0
    /\ wpc' = [wpc EXCEPT ![w] = "waiting"]
    /\ UNCHANGED <<dur, spc, sets, rf>>
    /\ WaitFrame

\* a condition variable may wake a thread that nobody notified
WaitSpurious(w) ==
    /\ wpc[w] = "waiting"
    /\ wpc' = [wpc EXCEPT ![w] = "woken"]
    /\ UNCHANGED <<mtx, dur, spc, sets, rf>>
    /\ WaitFrame

\* the duration of wait_timeout_while elapses
WaitTimeout(w) ==
    /\ wpc[w] = "waiting"
    /\ dur[w]
    /\ wpc' = [wpc EXCEPT ![w] = "timedout"]
    /\ UNCHANGED <<mtx, dur, spc, sets, rf>>
    /\ WaitFrame

\* a woken thread takes the mutex again before wait returns
WaitReacquire(w) ==
    /\ wpc[w] \in {"woken", "timedout"}
    /\ mtx = 0
    /\ mtx' = w
    /\ wpc' = [wpc EXCEPT ![w] = IF wpc[w] = "woken" THEN "pred" ELSE "expired"]
    /\ UNCHANGED <<dur, spc, sets, rf>>
    /\ WaitFrame

\* set(): self.rf.store(true, Release)
SetStore ==
    /\ spc = "idle"
    /\ sets < MaxSets
    /\ rf' = Notifier_set(rf)
    /\ spc' = "notify"
    /\ sets' = sets + 1
    /\ UNCHANGED <<mtx, wpc, dur>>
    /\ WaitFrame

\* set(): self.cvar.1.notify_all(), the mutex not held
SetNotify ==
    /\ spc = "notify"
    /\ wpc' = [w \in Waiters |-> IF wpc[w] = "waiting" THEN "woken" ELSE wpc[w]]
    /\ spc' = "idle"
    /\ UNCHANGED <<mtx, dur, sets, rf>>
    /\ WaitFrame

\* the steps a waiting thread takes by itself
WaitStep(w) ==
    \/ WaitCheck(w) \/ WaitTryLock(w) \/ WaitPred(w) \/ WaitPark(w)
    \/ WaitReacquire(w) \/ WaitTimeout(w)

-----------------------------------------------------------------------------
(* TrejDaemon::run() with the file watcher and the graph notifier *)

\* the policies the file may hold, by version
PolicyVersions == {"p0", "p1"}

\* SyncSender::try_send: the message is dropped when the channel is full
try_send(ch, msg) == IF Len(ch) < MaxChannel THEN Append(ch, msg) ELSE ch

DaemonFrame == UNCHANGED <<lockVars, chain, graphVars, stateVars, waitVars, nameVars, restVars>>

\* a NotificationHandler callback of GraphNotifier: self.notify()
GraphNotify ==
    /\ evLeft > 0
    /\ evLeft' = evLeft - 1
    /\ event_stream' = try_send(event_stream, "GraphUpdated")
    /\ graphOwed' = TRUE
    /\ UNCHANGED <<dpc, daemon_config, policy_file, policyOwed>>
    /\ DaemonFrame

\* the policy file is written (or only touched) and the watcher's closure runs
FileEvent ==
    /\ evLeft > 0
    /\ evLeft' = evLeft - 1
    /\ \E v \in PolicyVersions \cup {"bad"} :
          /\ policy_file' = v
          /\ policyOwed' = (v \notin {daemon_config, "bad"})
    /\ event_stream' = try_send(event_stream, "ConfigUpdated")
    /\ UNCHANGED <<dpc, daemon_config, graphOwed>>
    /\ DaemonFrame

\* self.event_stream.recv() returns a message
DaemonRecv ==
    /\ dpc = "recv"
    /\ event_stream # <<>>
    /\ event_stream' = Tail(event_stream)
    /\ IF Head(event_stream) = "ConfigUpdated"
       THEN dpc' = "read" /\ UNCHANGED <<graphOwed, policyOwed>>
       ELSE dpc' = "apply" /\ graphOwed' = FALSE /\ policyOwed' = FALSE
    /\ UNCHANGED <<daemon_config, policy_file, evLeft>>
    /\ DaemonFrame

\* Ok(ConfigUpdated): read_config(..)?, then the comparison with self.config
DaemonReadConfig ==
    /\ dpc = "read"
    /\ IF policy_file = "bad"
       THEN dpc' = "stopped" /\ UNCHANGED <<daemon_config, graphOwed, policyOwed>>
       ELSE IF policy_file # daemon_config
       THEN /\ daemon_config' = policy_file
            /\ dpc' = "apply"
            /\ graphOwed' = FALSE /\ policyOwed' = FALSE
       ELSE dpc' = "recv" /\ UNCHANGED <<daemon_config, graphOwed, policyOwed>>
    /\ UNCHANGED <<event_stream, policy_file, evLeft>>
    /\ DaemonFrame

\* apply_config(&self.config, ..)? returns
DaemonApply(fault) ==
    /\ dpc = "apply"
    /\ dpc' = IF fault THEN "stopped" ELSE "recv"
    /\ UNCHANGED <<event_stream, daemon_config, policy_file, graphOwed, policyOwed, evLeft>>
    /\ DaemonFrame

-----------------------------------------------------------------------------
(* Building, writing and reading back a PortFullname *)

\* the bytes 'a' and ':' in strings of at most MaxLen bytes
Strings == SeqsUpTo({97, Colon}, MaxLen)

NameFrame == UNCHANGED <<lockVars, chain, graphVars, stateVars, waitVars, daemonVars, restVars>>

InitName ==
    /\ buffer \in Strings
    /\ made = NameErr("")
    /\ ser = <<>>
    /\ back = NameErr("")
    /\ npc = "new"

\* no name is built
IdleName ==
    /\ buffer = <<>>
    /\ made = NameErr("")
    /\ ser = <<>>
    /\ back = NameErr("")
    /\ npc = "idle"

NameNew ==
    /\ npc = "new"
    /\ made' = PortFullname_new(buffer)
    /\ npc' = IF made'.ok THEN "made" ELSE "failed"
    /\ UNCHANGED <<buffer, ser, back>>
    /\ NameFrame

NameSerialize ==
    /\ npc = "made"
    /\ ser' = Serialize(made)
    /\ npc' = "ser"
    /\ UNCHANGED <<buffer, made, back>>
    /\ NameFrame

NameDeserialize ==
    /\ npc = "ser"
    /\ back' = Deserialize(ser)
    /\ npc' = "back"
    /\ UNCHANGED <<buffer, made, ser>>
    /\ NameFrame

-----------------------------------------------------------------------------
(* ItemKey: the position of a row of the tree view (model/pathing.rs) *)

\* usize::MAX of a narrowed usize
USIZE_MAX == 3

OptionUsize == {Nothing} \cup {Some(n) : n \in 0..USIZE_MAX}

\* n + 1 on usize: with overflow checks the sum past usize::MAX panics (Nothing),
\* without them it wraps
AddOne(n) ==
    IF n < USIZE_MAX THEN {Some(n + 1)} ELSE {Nothing, Some((n + 1) % (USIZE_MAX + 1))}

\* match idx { Some(n) => n + 1, None => 0 }
Offset(idx) == IF idx = Nothing THEN {Some(0)} ELSE AddOne(TheOne(idx))

ItemKey_new_noOffset(c, p, k) ==
    {Some([client_offset |-> IF c = Nothing THEN 0 ELSE TheOne(c),
           port_offset |-> IF p = Nothing THEN 0 ELSE TheOne(p),
           connection_offset |-> IF k = Nothing THEN 0 ELSE TheOne(k)])}

\* the outcomes of ItemKey::new: the key built, or Nothing when it panics
ItemKey_new(c, p, k) ==
    {IF Nothing \in {co, po, ko}
        THEN Nothing
        ELSE Some([client_offset |-> TheOne(co), port_offset |-> TheOne(po),
                   connection_offset |-> TheOne(ko)])
     : co \in Offset(c), po \in Offset(p), ko \in Offset(k)}

checked_sub(off) == IF off >= 1 THEN Some(off - 1) ELSE Nothing

client_idx(self) == checked_sub(self.client_offset)

port_idx(self) == checked_sub(self.port_offset)

connection_idx(self) == checked_sub(self.connection_offset)

layer(self) ==
    IF client_idx(self) = Nothing THEN "Root"
    ELSE IF port_idx(self) = Nothing THEN "Client"
    ELSE IF connection_idx(self) = Nothing THEN "Port"
    ELSE "Connection"

nth_child(self, i) ==
    IF client_idx(self) = Nothing THEN ItemKey_new(Some(i), Nothing, Nothing)
    ELSE IF port_idx(self) = Nothing THEN ItemKey_new(client_idx(self), Some(i), Nothing)
    ELSE IF connection_idx(self) = Nothing
        THEN ItemKey_new(client_idx(self), port_idx(self), Some(i))
    ELSE ItemKey_new(client_idx(self), port_idx(self), connection_idx(self))

KeyFrame ==
    UNCHANGED <<lockVars, chain, graphVars, stateVars, waitVars, daemonVars, nameVars,
                enforceVars, popupVars>>

InitKey ==
    /\ key_in \in OptionUsize \X OptionUsize \X OptionUsize
    /\ item_key = Nothing
    /\ parent_key = Nothing
    /\ child_idx = 0
    /\ kpc = "new"

\* no key is built
IdleKey ==
    /\ key_in = <<Nothing, Nothing, Nothing>>
    /\ item_key = Nothing
    /\ parent_key = Nothing
    /\ child_idx = 0
    /\ kpc = "idle"

-----------------------------------------------------------------------------
(* apply_config of the daemon, on the live client (daemon/mod.rs) *)

EnforceFrame == UNCHANGED <<lockVars, chain, cacheVars, updVars, histVars, rf, stateVars,
                            waitVars, nameVars, keyVars, popupVars>>

\* the ports the daemon may meet: audio and midi, inputs and outputs
EnforceNames == {PortAO, PortBI, PortBO, PortAM}

EnforceListings(n) ==
    {q \in SeqsUpTo(EnforceNames, n) : \A i, j \in DOMAIN q : i # j => q[i] # q[j]}

\* the policies of one port entry over these ports
EnforcePolicies ==
    {FromConfigFile(<<[kind |-> "Port", name |-> p,
                       info |-> [lock |-> l, connections |-> q]]>>)
     : p \in EnforceNames, l \in OptionalLocks, q \in SeqsUpTo(EnforceNames, MaxForced)}

\* the scan of port_names for port_a and port_b: [a, b], the data found
DaemonFind(names, port_a, port_b) ==
    [a |-> IF port_a \in Range(names) THEN Some(port_a) ELSE Nothing,
     b |-> IF port_b \in Range(names) /\ port_b # port_a THEN Some(port_b) ELSE Nothing]

\* a forced pair that is connected whatever the types and directions
daemon_force_unguarded(names, conns, port_a, port_b) ==
    LET found == DaemonFind(names, port_a, port_b)
    IN  IF found.a = Nothing \/ found.b = Nothing THEN Nothing
        ELSE IF ExtIsConnectedIn(conns, port_a, port_b) THEN Nothing
        ELSE IF IsInput(port_a) THEN Some(<<port_b, port_a>>)
        ELSE Some(<<port_a, port_b>>)

\* a forced pair that is connected again although it is connected already
daemon_force_reconnecting(names, conns, port_a, port_b) ==
    LET found == DaemonFind(names, port_a, port_b)
    IN  IF found.a = Nothing \/ found.b = Nothing THEN Nothing
        ELSE IF PortType(port_a) # PortType(port_b) THEN Nothing
        ELSE IF ~IsInput(port_a) /\ IsInput(port_b) THEN Some(<<port_a, port_b>>)
        ELSE IF IsInput(port_a) /\ ~IsInput(port_b) THEN Some(<<port_b, port_a>>)
        ELSE Nothing

\* the body of the loop over forced_connections(): the (src, dst) to connect, if any
daemon_force(names, conns, port_a, port_b) ==
    LET found == DaemonFind(names, port_a, port_b)
    IN  IF found.a = Nothing \/ found.b = Nothing THEN Nothing
        ELSE IF PortType(port_a) # PortType(port_b) \/ ExtIsConnectedIn(conns, port_a, port_b)
            THEN Nothing
        ELSE IF ~IsInput(port_a) /\ IsInput(port_b) THEN Some(<<port_a, port_b>>)
        ELSE IF IsInput(port_a) /\ ~IsInput(port_b) THEN Some(<<port_b, port_a>>)
        ELSE Nothing

\* apply_config is entered: client.ports() and port_by_name for each name
DaemonList ==
    /\ dpc = "apply"
    /\ d_names' = extPorts
    /\ d_a' = 0 /\ d_b' = 1 /\ d_k' = 0
    /\ dcalls' = <<>>
    /\ dpc' = "block"
    /\ UNCHANGED <<extVars, event_stream, daemon_config, policy_file, graphOwed, policyOwed,
                   evLeft>>
    /\ EnforceFrame

\* one turn of the inner loop over port_b, or the end of a loop
DaemonBlock(fault) ==
    /\ dpc = "block"
    /\ IF d_a >= Len(d_names)
       THEN /\ ~fault
            /\ dpc' = "force"
            /\ UNCHANGED <<extVars, d_a, d_b, dcalls>>
       ELSE IF d_b >= Len(d_names)
       THEN /\ ~fault
            /\ d_a' = d_a + 1 /\ d_b' = d_a + 2
            /\ UNCHANGED <<extVars, dpc, dcalls>>
       ELSE LET port_a == d_names[d_a + 1]
                port_b == d_names[d_b + 1]
                a_is_src == ~IsInput(port_a)
                src == IF a_is_src THEN port_a ELSE port_b
                dst == IF a_is_src THEN port_b ELSE port_a
            IN  IF fault
                THEN \* is_connected_to(..)? returns the error
                     dpc' = "stopped" /\ UNCHANGED <<extVars, d_a, d_b, dcalls>>
                ELSE /\ d_b' = d_b + 1
                     /\ IF /\ ExtIsConnectedIn(extConns, port_a, port_b)
                           /\ should_block(connection_status(daemon_config, port_a, port_b))
                        THEN /\ pending < MaxPending
                             /\ extConns' = extConns \ {<<src, dst>>}
                             /\ pending' = pending + 1
                             /\ dcalls' = Append(dcalls, [op |-> "disconnect",
                                                          source |-> src, dest |-> dst])
                             /\ UNCHANGED <<extPorts, extLeft, dpc, d_a>>
                        ELSE UNCHANGED <<extVars, dpc, d_a, dcalls>>
    /\ UNCHANGED <<d_names, d_k, event_stream, daemon_config, policy_file, graphOwed,
                   policyOwed, evLeft>>
    /\ EnforceFrame

\* one turn of the loop over conf.forced_connections(), or its end
DaemonForce(fault) ==
    /\ dpc = "force"
    /\ IF d_k >= Len(forced_connections(daemon_config))
       THEN /\ ~fault
            /\ dpc' = "recv"
            /\ UNCHANGED <<extVars, d_k, dcalls>>
       ELSE LET port_a == forced_connections(daemon_config)[d_k + 1][1]
                port_b == forced_connections(daemon_config)[d_k + 1][2]
                found == DaemonFind(d_names, port_a, port_b)
                todo_pair == daemon_force(d_names, extConns, port_a, port_b)
            IN  IF fault
                THEN \* port_type()? or is_connected_to(..)? returns the error
                     /\ found.a # Nothing /\ found.b # Nothing
                     /\ dpc' = "stopped"
                     /\ UNCHANGED <<extVars, d_k, dcalls>>
                ELSE /\ d_k' = d_k + 1
                     /\ IF todo_pair = Nothing
                        THEN UNCHANGED <<extVars, dpc, dcalls>>
                        ELSE /\ pending < MaxPending
                             /\ extConns' = extConns \cup {TheOne(todo_pair)}
                             /\ pending' = pending + 1
                             /\ dcalls' = Append(dcalls, [op |-> "connect",
                                                          source |-> TheOne(todo_pair)[1],
                                                          dest |-> TheOne(todo_pair)[2]])
                             /\ UNCHANGED <<extPorts, extLeft, dpc>>
    /\ UNCHANGED <<d_names, d_a, d_b, event_stream, daemon_config, policy_file, graphOwed,
                   policyOwed, evLeft>>
    /\ EnforceFrame

\* the notification thread runs a callback of GraphNotifier for a change the
\* daemon made
DaemonNotified ==
    /\ pending > 0
    /\ pending' = pending - 1
    /\ event_stream' = try_send(event_stream, "GraphUpdated")
    /\ UNCHANGED <<extPorts, extConns, extLeft, dpc, daemon_config, policy_file, graphOwed,
                   policyOwed, evLeft, enforceVars>>
    /\ EnforceFrame

\* no apply_config of the daemon runs
IdleEnforce ==
    /\ d_names = <<>>
    /\ d_a = 0 /\ d_b = 0 /\ d_k = 0
    /\ dcalls = <<>>

-----------------------------------------------------------------------------
(* The connect and disconnect popups (ui/graphview/connect.rs, disconnect.rs) *)

flip(direction) == IF direction = "In" THEN "Out" ELSE "In"

\* an available_ports without the test of the policy
available_ports_unlocked(port, ps, conns, conf) ==
    SelectSeq(ps, LAMBDA cur :
        /\ cur.name # port.name
        /\ cur.category = port.category
        /\ cur.direction = flip(port.direction)
        /\ ~is_connected(ps, conns, port.name, cur.name))

\* available_ports(): the ports the connect popup lists, in cache order
available_ports(port, ps, conns, conf) ==
    SelectSeq(ps, LAMBDA cur :
        /\ cur.name # port.name
        /\ cur.category = port.category
        /\ cur.direction = flip(port.direction)
        /\ ~is_connected(ps, conns, port.name, cur.name)
        /\ ~should_block(connection_status(conf, port.name, cur.name)))

\* connected_ports(): the ports the disconnect popup lists
connected_ports(port, ps, conns, conf) ==
    {other \in port_connections(ps, conns, port.name) :
        ~should_force(connection_status(conf, port.name, other.name))}

\* cur_available.len()
ListedLen(kind, port, ps, conns, conf) ==
    IF kind = "connect" THEN Len(available_ports(port, ps, conns, conf))
    ELSE Cardinality(connected_ports(port, ps, conns, conf))

\* usize::checked_add(1)
checked_add(n) == IF n < USIZE_MAX THEN Some(n + 1) ELSE Nothing

\* n - 1 on usize: below zero it panics with overflow checks (Nothing) and
\* wraps without them
SubOne(n) == IF n >= 1 THEN {Some(n - 1)} ELSE {Nothing, Some(USIZE_MAX)}

\* resolve_tree_state(): the selections it may leave, Nothing for a panic
resolve_tree_state(selected, len) ==
    IF selected = Nothing THEN {Some(selected)}
    ELSE IF TheOne(selected) >= len
        THEN {IF last_idx = Nothing THEN Nothing ELSE Some(last_idx) : last_idx \in SubOne(len)}
    ELSE {Some(selected)}

PopupFrame ==
    UNCHANGED <<lockVars, chain, graphVars, stateVars, waitVars, daemonVars, nameVars,
                keyVars, enforceVars>>

\* no popup is shown
IdlePopup ==
    /\ pop_kind = "connect"
    /\ pop_port = PortDataOf(PortAO)
    /\ selected_idx = Nothing
    /\ ppc = "closed"

\* AddConnectionState::new(port) / DelConnectionState::new(port)
PopupNew ==
    /\ ppc = "closed"
    /\ pc = "idle"
    /\ \E kind \in {"connect", "disconnect"}, i \in DOMAIN ports :
          /\ pop_kind' = kind
          /\ pop_port' = ports[i]
    /\ selected_idx' = Nothing
    /\ ppc' = "open"
    /\ PopupFrame

\* handle_pending_event(): MoveUp
PopupMoveUp ==
    /\ ppc \in {"open", "resolved"}
    /\ selected_idx' = IF selected_idx = Nothing THEN Some(0)
                       ELSE checked_sub(TheOne(selected_idx))
    /\ ppc' = "open"
    /\ UNCHANGED <<pop_kind, pop_port>>
    /\ PopupFrame

\* handle_pending_event(): MoveDown
PopupMoveDown ==
    /\ ppc \in {"open", "resolved"}
    /\ selected_idx' = IF selected_idx = Nothing THEN Some(0)
                       ELSE checked_add(TheOne(selected_idx))
    /\ ppc' = "open"
    /\ UNCHANGED <<pop_kind, pop_port>>
    /\ PopupFrame

\* handle_pending_event(): Cancel
PopupCancel ==
    /\ ppc \in {"open", "resolved"}
    /\ selected_idx' = Nothing
    /\ ppc' = "closed"
    /\ UNCHANGED <<pop_kind, pop_port>>
    /\ PopupFrame

\* render(): state.resolve_tree_state(self.graph, self.conf)
PopupRender ==
    /\ ppc \in {"open", "resolved"}
    /\ pc = "idle"
    /\ \E r \in resolve_tree_state(selected_idx,
                                   ListedLen(pop_kind, pop_port, ports, connections, config)) :
          IF r = Nothing
          THEN ppc' = "panicked" /\ UNCHANGED selected_idx
          ELSE ppc' = "resolved" /\ selected_idx' = TheOne(r)
    /\ UNCHANGED <<pop_kind, pop_port>>
    /\ PopupFrame

IdleRest == IdleKey /\ IdleEnforce /\ IdlePopup

KeyNew ==
    /\ kpc = "new"
    /\ item_key' \in ItemKey_new(key_in[1], key_in[2], key_in[3])
    /\ kpc' = "made"
    /\ UNCHANGED <<key_in, parent_key, child_idx>>
    /\ KeyFrame

KeyNthChild ==
    /\ kpc \in {"made", "child"}
    /\ item_key # Nothing
    /\ \E i \in 0..USIZE_MAX :
        /\ child_idx' = i
        /\ item_key' \in nth_child(TheOne(item_key), i)
    /\ parent_key' = item_key
    /\ kpc' = "child"
    /\ UNCHANGED key_in
    /\ KeyFrame

-----------------------------------------------------------------------------
(* Specifications *)

\* the graph and the reconciliation are not exercised
IdleGraph ==
    /\ InitJackGraph
    /\ extPorts = <<>> /\ extConns = {} /\ pending = 0 /\ extLeft = 0

IdleState ==
    /\ config = LockConfig_new
    /\ config_path = Nothing
    /\ apc = "none" /\ todo = <<>> /\ forceIdx = 0 /\ calls = <<>> /\ passes = 0

\* TrejDaemon::new() has returned
InitDaemon(events) ==
    /\ event_stream = <<>>
    /\ dpc = "recv"
    /\ policy_file \in PolicyVersions
    /\ daemon_config = policy_file
    /\ graphOwed = FALSE
    /\ policyOwed = FALSE
    /\ evLeft = events

\* no daemon runs
IdleDaemon == InitDaemon(0) /\ policy_file = "p0"

\* nobody waits on the Notifier
IdleWait ==
    /\ mtx = 0
    /\ wpc = [w \in Waiters |-> "none"]
    /\ dur = [w \in Waiters |-> FALSE]
    /\ spc = "idle"
    /\ sets = 0

InitLockSpec == InitLock /\ IdleChain /\ IdleGraph /\ IdleState /\ IdleWait /\ IdleDaemon /\ IdleName /\ IdleRest

SpecLock == InitLockSpec /\ [][NextLock]_vars

InitLattice == InitLock /\ InitChain /\ IdleGraph /\ IdleState /\ IdleWait /\ IdleDaemon /\ IdleName /\ IdleRest

SpecLattice == InitLattice /\ [][NextLattice]_vars

\* a JackGraph on a server that other clients change and whose queries may fail
InitLive ==
    InitLock /\ IdleChain /\ InitJackGraph /\ InitServer(MaxExt) /\ IdleState /\ IdleWait
    /\ IdleDaemon /\ IdleName /\ IdleRest

NextLive ==
    \/ UpdateReset \/ UpdateList \/ UpdateReturn
    \/ \E fault \in BOOLEAN : UpdatePort(fault)
    \/ \E fault \in BOOLEAN : UpdateConn(fault)
    \/ CallUpdate \/ CallConnect \/ CallDisconnect
    \/ Deliver
    \/ ExtRegister \/ ExtUnregister \/ ExtConnect \/ ExtDisconnect

Spec == InitLive /\ [][NextLive]_vars

\* the live JackGraph on a server where two connections may exist
InitPatch ==
    InitLock /\ IdleChain /\ InitJackGraph /\ InitPatchServer /\ IdleState /\ IdleWait
    /\ IdleDaemon /\ IdleName /\ IdleRest

SpecPatch == InitPatch /\ [][NextLive]_vars

\* a JackGraph that only its owner changes, reconciled against a policy
InitReconcile ==
    /\ config \in ReconPolicies
    /\ config_path = Nothing
    /\ apc = "none" /\ todo = <<>> /\ forceIdx = 0 /\ calls = <<>> /\ passes = 0

InitQuiet ==
    InitLock /\ IdleChain /\ InitJackGraph /\ InitServer(0) /\ InitReconcile /\ IdleWait
    /\ IdleDaemon /\ IdleName /\ IdleRest

NextQuiet ==
    \/ UpdateReset \/ UpdateList \/ UpdateReturn
    \/ UpdatePort(FALSE) \/ UpdateConn(FALSE)
    \/ CallUpdate \/ CallConnect \/ CallDisconnect
    \/ Deliver
    \/ ApplyStart \/ ApplyDisconnect \/ ApplyForce \/ ApplyReturn

SpecQuiet == InitQuiet /\ [][NextQuiet]_vars

\* a TrejState that reloads its policy file; queries of the server may fail
InitReloadSpec ==
    /\ InitLock /\ IdleChain /\ InitJackGraph /\ InitServer(0) /\ IdleWait
    /\ IdleDaemon /\ IdleName /\ IdleRest
    /\ config \in FilePolicies
    /\ config_path \in {Nothing, Some("policy.toml")}
    /\ apc = "none" /\ todo = <<>> /\ forceIdx = 0 /\ calls = <<>> /\ passes = 0

NextReload ==
    \/ UpdateReset \/ UpdateList \/ UpdateReturn
    \/ \E fault \in BOOLEAN : UpdatePort(fault)
    \/ \E fault \in BOOLEAN : UpdateConn(fault)
    \/ Deliver
    \/ ReloadStart \/ ReloadApply
    \/ ApplyDisconnect \/ ApplyForce \/ ApplyReturn

SpecReload == InitReloadSpec /\ [][NextReload]_vars

\* the daemon alone on a server: it reconciles the graph it finds against its
\* policy, woken by the notifications of its own changes
InitEnforceSpec ==
    /\ InitLock /\ IdleChain /\ InitJackGraph /\ IdleState /\ IdleWait
    /\ IdleName /\ IdleKey /\ IdleEnforce /\ IdlePopup
    /\ extPorts \in EnforceListings(MaxPorts)
    /\ extConns \in SUBSET Connectable(Range(extPorts))
    /\ pending = 0 /\ extLeft = 0
    /\ daemon_config \in EnforcePolicies
    /\ policy_file = daemon_config
    /\ event_stream = <<"GraphUpdated">>
    /\ dpc = "recv"
    /\ graphOwed = FALSE /\ policyOwed = FALSE /\ evLeft = 0

NextEnforce ==
    \/ DaemonRecv
    \/ DaemonList
    \/ \E fault \in BOOLEAN : DaemonBlock(fault)
    \/ \E fault \in BOOLEAN : DaemonForce(fault)
    \/ DaemonNotified

\* the daemon thread and the notification thread take their steps
FairEnforce ==
    /\ WF_vars(DaemonRecv)
    /\ WF_vars(DaemonList)
    /\ WF_vars(\E fault \in BOOLEAN : DaemonBlock(fault))
    /\ WF_vars(\E fault \in BOOLEAN : DaemonForce(fault))
    /\ WF_vars(DaemonNotified)

SpecEnforce == InitEnforceSpec /\ [][NextEnforce]_vars /\ FairEnforce

\* the popups over a cache that JackGraph::new() filled, under a policy
InitPopupSpec ==
    /\ InitLock /\ IdleChain /\ InitJackGraph /\ InitServer(0) /\ InitReconcile /\ IdleWait
    /\ IdleDaemon /\ IdleName /\ IdleKey /\ IdleEnforce /\ IdlePopup

NextPopup ==
    \/ UpdateReset \/ UpdateList \/ UpdateReturn
    \/ UpdatePort(FALSE) \/ UpdateConn(FALSE)
    \/ PopupNew \/ PopupMoveUp \/ PopupMoveDown \/ PopupCancel \/ PopupRender

SpecPopup == InitPopupSpec /\ [][NextPopup]_vars

\* threads waiting on a Notifier that the callback thread sets
InitWait == InitLock /\ IdleChain /\ IdleGraph /\ IdleState /\ IdleWait /\ IdleDaemon /\ IdleName /\ IdleRest

NextWait ==
    \/ \E w \in Waiters : WaitCall(w)
    \/ \E w \in Waiters : WaitCheck(w)
    \/ \E w \in Waiters : WaitTryLock(w)
    \/ \E w \in Waiters : WaitPred(w)
    \/ \E w \in Waiters : WaitPark(w)
    \/ \E w \in Waiters : WaitSpurious(w)
    \/ \E w \in Waiters : WaitTimeout(w)
    \/ \E w \in Waiters : WaitReacquire(w)
    \/ SetStore
    \/ SetNotify

\* every thread that can take a step does; no event and no spurious wake-up is owed
FairWait ==
    /\ \A w \in Waiters : WF_vars(WaitStep(w))
    /\ WF_vars(SetNotify)

SpecWait == InitWait /\ [][NextWait]_vars /\ FairWait

\* the daemon loop, the file watcher and the graph notifier
InitDaemonSpec ==
    InitLock /\ IdleChain /\ IdleGraph /\ IdleState /\ IdleWait /\ InitDaemon(MaxEvents)
    /\ IdleName /\ IdleRest

NextDaemon ==
    \/ GraphNotify \/ FileEvent
    \/ DaemonRecv \/ DaemonReadConfig
    \/ \E fault \in BOOLEAN : DaemonApply(fault)

\* the daemon thread takes its steps; no graph or file event is owed
FairDaemon ==
    /\ WF_vars(DaemonRecv)
    /\ WF_vars(DaemonReadConfig)
    /\ WF_vars(\E fault \in BOOLEAN : DaemonApply(fault))

SpecDaemon == InitDaemonSpec /\ [][NextDaemon]_vars /\ FairDaemon

\* one string through PortFullname::new, Serialize and Deserialize
InitNameSpec ==
    InitLock /\ IdleChain /\ IdleGraph /\ IdleState /\ IdleWait /\ IdleDaemon /\ InitName
    /\ IdleRest

NextName == NameNew \/ NameSerialize \/ NameDeserialize

SpecName == InitNameSpec /\ [][NextName]_vars

\* keys built by ItemKey::new and descended by nth_child
InitKeySpec ==
    InitLock /\ IdleChain /\ IdleGraph /\ IdleState /\ IdleWait /\ IdleDaemon /\ IdleName
    /\ InitKey /\ IdleEnforce /\ IdlePopup

NextKey == KeyNew \/ KeyNthChild

SpecKey == InitKeySpec /\ [][NextKey]_vars

-----------------------------------------------------------------------------
(* Claims about the lock policy engine *)

\* the canonical pair of a and b is an element of the declared-pairs list
Declared(conf, a, b) ==
    \E i \in DOMAIN conf.connections_list :
        conf.connections_list[i] = <<NameMin(a, b), NameMax(a, b)>>

\* C1: connection_status(a, b) is Force exactly when the canonical pair is
\* declared and an endpoint's port_status is Force/Full, Block exactly when
\* it is not declared and an endpoint's port_status is Block/Full, and None
\* in every other case.
C1_ConnectionStatus ==
    probe.op = "connection_status" =>
        LET declared == Declared(retvl, probe.a, probe.b)
            locks == {port_status(retvl, probe.a), port_status(retvl, probe.b)}
        IN  /\ probe.res = Force <=> (declared /\ locks \cap {Force, Full} # {})
            /\ probe.res = Block <=> (~declared /\ locks \cap {Block, Full} # {})
            /\ probe.res \in {Force, Block, None}

\* C1 witness: a declared pair whose endpoints carry only Block was queried
C1_DeclaredBlockQueried ==
    /\ probe.op = "connection_status"
    /\ Declared(retvl, probe.a, probe.b)
    /\ probe.a # probe.b
    /\ port_status(retvl, probe.a) = Block
    /\ port_status(retvl, probe.b) \in {None, Block}
    /\ probe.res = None

\* C2: every with_force() result satisfies should_force() and every
\* with_block() result satisfies should_block().
C2_JoinSetsItsBit ==
    \A i \in DOMAIN chain :
        /\ chain[i].op = "with_force" => should_force(chain[i].val)
        /\ chain[i].op = "with_block" => should_block(chain[i].val)

\* C3: with_force and with_block never clear a bit that was set, and
\* s.with_force().with_block() is Full.
C3_JoinIsMonotonic ==
    \A i \in DOMAIN chain :
        i > 1 =>
            /\ \A mask \in {as_bits(Force), as_bits(Block)} :
                  HasBit(as_bits(chain[i - 1].val), mask) => HasBit(as_bits(chain[i].val), mask)
            /\ (i > 2 /\ chain[i - 1].op = "with_force" /\ chain[i].op = "with_block")
                  => chain[i].val = Full

PairSet(conf) == {conf.connections_list[i] : i \in DOMAIN conf.connections_list}

\* C8: converting a loaded LockConfig to the file model and loading that
\* back yields the same client-status map, the same port-status map and the
\* same declared-pair set.
C8_RoundTrip ==
    lphase = "reloaded" =>
        /\ reloaded.client_locks = retvl.client_locks
        /\ reloaded.port_locks = retvl.port_locks
        /\ PairSet(reloaded) = PairSet(retvl)

-----------------------------------------------------------------------------
(* Claims about the graph cache and the reconciliation *)

\* C4: a second apply_config pass in a row, with nothing else changing the
\* graph, issues no external connect or disconnect call
C4_SecondPassIssuesNothing ==
    /\ (passes >= 1 /\ apc = "run") => calls = <<>>
    /\ passes >= 2 => calls = <<>>

\* C5: when an update() of a constructed graph is about to return an error, the
\* cached ports and connections are what they were when it was entered
C5_FailedUpdateKeepsSnapshot ==
    (pc = "upd_err" /\ caller # "new") => <<ports, connections>> = saved

\* the connections of a cache as unordered pairs of names
CachedPairs(ps, conns) ==
    {{c[1].name, c[2].name} : c \in Range(all_connections(ps, conns))}

CachedNames(ps) == {ps[i].name : i \in DOMAIN ps}

\* the cache shows the ports and the connections of the server
CacheIsCurrent ==
    /\ Len(ports) = Len(extPorts)
    /\ CachedNames(ports) = Range(extPorts)
    /\ Len(all_connections(ports, connections)) = Len(connections)
    /\ Len(connections) = Cardinality(extConns)
    /\ CachedPairs(ports, connections) = {{c[1], c[2]} : c \in extConns}

\* C6: with every update() so far successful, none running, no callback
\* undelivered and needs_update() false the cache equals the server's graph; and
\* an update() that returns with a stale cache returns with the flag set
C6_NoChangeLost ==
    /\ (allOk /\ pc = "idle" /\ pending = 0 /\ ~Notifier_check(rf)) => CacheIsCurrent
    /\ (allOk /\ pc = "upd_ok" /\ pending = 0 /\ ~CacheIsCurrent) => Notifier_check(rf)

\* C6 witness: an update() is returning, the server changed after its reads,
\* the callback has run and left the flag set
C6_ChangeSignalledDuringUpdate ==
    /\ allOk /\ pc = "upd_ok" /\ pending = 0
    /\ extLeft < MaxExt
    /\ ~CacheIsCurrent
    /\ Notifier_check(rf)

\* C9: a full update() after connect / disconnect calls ends with the ports
\* and the connections of the patched cache it started from
C9_PatchEqualsRefresh ==
    (pc = "upd_ok" /\ caller = "update") =>
        /\ CachedNames(ports) = CachedNames(saved[1])
        /\ CachedPairs(ports, connections) = CachedPairs(saved[1], saved[2])
        /\ Len(connections) = Len(saved[2])

\* C9 witness: the update() follows a connect() that patched a connection in
C9_RefreshAfterPatch ==
    /\ pc = "upd_ok" /\ caller = "update"
    /\ last.op = "connect" /\ last.ok /\ last.upd = "none"
    /\ saved[2] # <<>>

\* C10: at rest every cached connection holds indices into the cached ports
C10_ValidIndices ==
    pc = "idle" =>
        \A i \in DOMAIN connections :
            connections[i][1] < Len(ports) /\ connections[i][2] < Len(ports)

\* C7: once set() has stored the flag, a thread inside wait_timeout(None)
\* eventually returns
C7_WaitReturnsOnceSet ==
    \A w \in Waiters :
        (Notifier_check(rf) /\ InWait(w) /\ ~dur[w]) ~> (wpc[w] = "returned")

\* C11: a connect() or disconnect() whose external call fails (the server is
\* left as it was and raises no callback) returns an error and leaves the cached
\* ports, the cached connections and the update flag unchanged
C11_FailedCallMutatesNothing ==
    [][((CallConnect \/ CallDisconnect) /\ extConns' = extConns /\ pending' = pending)
          => /\ last'.op \in {"connect", "disconnect"}
             /\ ~last'.ok
             /\ last'.upd = "none"
             /\ UNCHANGED <<ports, connections, rf, pc>>]_vars

\* C11 witness: a connect() or disconnect() has returned an error on a cache
\* that holds connections, with the update flag set
C11_FailedCallReturned ==
    /\ pc = "idle"
    /\ last.op \in {"connect", "disconnect"} /\ ~last.ok /\ last.upd = "none"
    /\ connections # <<>>
    /\ Notifier_check(rf)

-----------------------------------------------------------------------------
(* Claims about what a reconciliation pass calls *)

\* the calls of the current pass that are `op`
Issued(op) == {i \in DOMAIN calls : calls[i].op = op}

\* the cache holds a connection between the two names
CachedConnected(a, b) == {a, b} \in CachedPairs(ports, connections)

\* the step adds one call, `op`, to those of the pass
Issues(op) == Len(calls') = Len(calls) + 1 /\ calls'[Len(calls')].op = op

C13_DeclaredNeverSevered ==
    \A i \in Issued("disconnect") : ~Declared(config, calls[i].source, calls[i].dest)

\* C13 witness: a pass has returned and left connected a declared pair one of
\* whose ports is locked Block or Full
C13_DeclaredBlockedKept ==
    /\ apc = "none" /\ passes >= 1 /\ last.ok
    /\ \E c \in extConns :
          /\ Declared(config, c[1], c[2])
          /\ CachedConnected(c[1], c[2])
          /\ should_block(port_status(config, c[1])) \/ should_block(port_status(config, c[2]))

\* the two ports are an output and an input of one category
Compatible(a, b) ==
    /\ PortDataOf(a).category = PortDataOf(b).category
    /\ PortDataOf(a).direction # PortDataOf(b).direction

\* C14: a pass issues no connect for two ports of different category or of the
\* same direction, and does not fail on a connect
C14_NoIncompatibleConnect ==
    /\ \A i \in Issued("connect") : Compatible(calls[i].source, calls[i].dest)
    /\ (apc = "run" /\ last.op = "connect") => last.ok

\* both names are in the cache
BothCached(a, b) == port_by_name(ports, a) # Nothing /\ port_by_name(ports, b) # Nothing

\* the connect call that goes from the output to the input of the two ports
ConnectOutIn(a, b) ==
    [op |-> "connect", source |-> IF IsInput(a) THEN b ELSE a,
                       dest |-> IF IsInput(a) THEN a ELSE b]

\* C15: the step of a pass at a forced pair issues connect(output, input) when
\* both ports are cached, compatible and not connected, and nothing when a port
\* is missing or the pair is connected; a pass that has returned has connected
\* every such pair with one call; the pass after it issues no connect for a
\* compatible pair
C15_ForcedPairConnectedOnce ==
    /\ [][(apc = "run" /\ forceIdx' = forceIdx + 1) =>
             LET a == forced_connections(config)[forceIdx + 1][1]
                 b == forced_connections(config)[forceIdx + 1][2]
             IN  /\ (BothCached(a, b) /\ Compatible(a, b) /\ ~CachedConnected(a, b))
                       => calls' = Append(calls, ConnectOutIn(a, b))
                 /\ (~BothCached(a, b) \/ CachedConnected(a, b)) => calls' = calls]_vars
    /\ []((apc = "none" /\ passes >= 1) =>
             \A k \in DOMAIN forced_connections(config) :
                 LET a == forced_connections(config)[k][1]
                     b == forced_connections(config)[k][2]
                 IN  (BothCached(a, b) /\ Compatible(a, b)) =>
                         /\ CachedConnected(a, b)
                         /\ Cardinality({i \in Issued("connect") :
                                            {calls[i].source, calls[i].dest} = {a, b}}) <= 1)
    /\ []((passes >= 1 /\ apc = "run") \/ passes >= 2 =>
             \A i \in Issued("connect") : ~Compatible(calls[i].source, calls[i].dest))

-----------------------------------------------------------------------------
(* Claims about the update flag *)

\* C16: a notification callback leaves needs_update() true; the flag goes from
\* set to clear only in the first step of update() and from clear to set only
\* in a callback
C16_FlagSetByCallbackClearedByUpdate ==
    /\ [][Deliver => Notifier_check(rf')]_vars
    /\ [][(Notifier_check(rf) /\ ~Notifier_check(rf'))
             => (pc = "upd_reset" /\ pc' = "upd_list")]_vars
    /\ [][(~Notifier_check(rf) /\ Notifier_check(rf')) => Deliver]_vars

\* C16 witness: update() is entered by the owner with the flag still set by a
\* callback that has run
C16_UpdateEnteredWithFlagSet ==
    /\ pc = "upd_reset" /\ caller = "update"
    /\ pending = 0 /\ extLeft < MaxExt
    /\ Notifier_check(rf)

-----------------------------------------------------------------------------
(* Claims about the daemon *)

\* C17: unless run() has returned an error, every graph notification and
\* every change of the policy file is eventually followed by an apply_config
\* that starts after it
C17_ChangeIsReconciled ==
    /\ graphOwed ~> (~graphOwed \/ dpc = "stopped")
    /\ policyOwed ~> (~policyOwed \/ dpc = "stopped")

\* C18: when the policy file does not parse on a ConfigUpdated, run() keeps its
\* config and goes back to recv()
C18_BadPolicyKeepsDaemonRunning ==
    [][(DaemonReadConfig /\ policy_file = "bad")
          => (dpc' = "recv" /\ daemon_config' = daemon_config)]_vars

-----------------------------------------------------------------------------
(* Claims about the status queries *)

\* C19: port_status returns the port's own entry whenever it has one, and the
\* status of its client (None when the client has no entry) only when it has none
C19_PortStatusOverrides ==
    probe.op = "port_status" =>
        probe.res = IF probe.a \in DOMAIN retvl.port_locks
                    THEN retvl.port_locks[probe.a]
                    ELSE IF client_name(probe.a) \in DOMAIN retvl.client_locks
                    THEN retvl.client_locks[client_name(probe.a)]
                    ELSE None

\* C19 witness: a port with the entry None under a locked client was queried
C19_NoneEntryUnderLockedClient ==
    /\ probe.op = "port_status"
    /\ probe.a \in DOMAIN retvl.port_locks
    /\ retvl.port_locks[probe.a] = None
    /\ client_status(retvl, client_name(probe.a)) \in {Force, Block, Full}
    /\ probe.res = None

\* C20: connection_status gives the same answer for (a, b) and (b, a)
C20_ConnectionStatusSymmetric ==
    probe.op = "connection_status" =>
        probe.res = connection_status(retvl, probe.b, probe.a)

\* C20 witness: a declared, forced pair was queried with the greater name first
C20_QueriedGreaterFirst ==
    /\ probe.op = "connection_status"
    /\ NameLess(probe.b, probe.a)
    /\ Declared(retvl, probe.a, probe.b)
    /\ probe.res = Force

\* C21: forced_connections() yields, once each, exactly the declared pairs with
\* an endpoint whose port_status is Force or Full, and leaves the declared list
\* as it is
C21_ForcedAreDeclaredAndMarked ==
    /\ [](probe.op = "forced_connections" =>
             /\ Range(probe.res) =
                   {p \in Range(retvl.connections_list) :
                       \/ port_status(retvl, p[1]) \in {Force, Full}
                       \/ port_status(retvl, p[2]) \in {Force, Full}}
             /\ Cardinality(Range(probe.res)) = Len(probe.res))
    /\ [][QueryForced => retvl'.connections_list = retvl.connections_list]_vars

\* C21 witness: of two declared pairs one was yielded and the other was not
C21_OneYieldedOneKept ==
    /\ probe.op = "forced_connections"
    /\ Len(retvl.connections_list) = 2
    /\ Len(probe.res) = 1

\* the pairs an entry of a document declares, each as (min, max)
EntryPairs(ent) ==
    IF ent.kind = "Client"
    THEN UNION {{<<NameMin(FormatFullname(ent.name, sn), o), NameMax(FormatFullname(ent.name, sn), o)>> :
                    o \in Range(ent.info.ports[sn].connections)} :
                sn \in DOMAIN ent.info.ports}
    ELSE {<<NameMin(ent.name, o), NameMax(ent.name, o)>> : o \in Range(ent.info.connections)}

\* the list is strictly sorted and each of its pairs has a <= b
SortedCanonical(list) ==
    /\ \A i \in 1..(Len(list) - 1) : PairLess(list[i], list[i + 1])
    /\ \A i \in DOMAIN list : ~NameLess(list[i][2], list[i][1])

\* C22: the declared list is strictly sorted with a <= b in every pair, and
\* loading an entry records each connection it declares once, as (min, max),
\* next to the pairs recorded before, whichever side declares it
C22_PairsSortedRecordedOnce ==
    /\ [](SortedCanonical(retvl.connections_list) /\ SortedCanonical(reloaded.connections_list))
    /\ [][nLoaded' = nLoaded + 1 =>
            \E ent \in ClientEntries \cup PortEntries :
                /\ PairSet(retvl') = PairSet(retvl) \cup EntryPairs(ent)
                /\ retvl' = LoadEntry(retvl, ent)]_vars

\* C22 witness: two pairs are recorded, the second entry's before the first's
\* and declared from its greater port under a client-nested entry
C22_NestedInsertedInFront ==
    /\ nLoaded = 2
    /\ retvl.connections_list = <<<<PortAM, PortBI>>, <<PortAO, PortBI>>>>
    /\ retvl.port_locks = EmptyMap
    /\ \E c \in ClientEntries, q \in PortEntries :
          /\ EntryPairs(c) = {<<PortAM, PortBI>>}
          /\ c.name = ClientB
          /\ retvl = LoadEntry(LoadEntry(LockConfig_new, q), c)

-----------------------------------------------------------------------------
(* Claims about port names *)

\* the 1-based positions of ':' in the string
Colons(str) == {i \in DOMAIN str : str[i] = Colon}

\* PortFullname::new(buffer) has returned
NewReturned == npc \in {"made", "failed", "ser", "back"}

\* C23: PortFullname::new succeeds for a string with exactly one ':' whose
\* client segment is at most CLIENT_NAME_SIZE long and whose length is at most
\* PORT_NAME_SIZE, and client_name() + ":" + port_shortname() is the string
C23_NewAcceptsNamesWithinLimits ==
    (/\ NewReturned
     /\ Cardinality(Colons(buffer)) = 1
     /\ \A i \in Colons(buffer) : i - 1 <= CLIENT_NAME_SIZE
     /\ Len(buffer) <= PORT_NAME_SIZE)
        => /\ made.ok
           /\ PortFullname_client_name(made) \o <<Colon>> \o PortFullname_port_shortname(made)
                 = buffer

\* C24: PortFullname::new fails with InvalidFullname for a string without ':',
\* whatever its length
C24_NoColonIsInvalidFullname ==
    (NewReturned /\ Colons(buffer) = {}) => (~made.ok /\ made.err = "InvalidFullname")

\* C25: a name is split at its first ':': client_name() is the text before it
\* and port_shortname() all the text after it, later colons included
C25_SplitAtFirstColon ==
    (NewReturned /\ made.ok) =>
        \E k \in Colons(buffer) :
            /\ \A j \in Colons(buffer) : k <= j
            /\ PortFullname_client_name(made) = SubSeq(buffer, 1, k - 1)
            /\ PortFullname_port_shortname(made) = SubSeq(buffer, k + 1, Len(buffer))

\* C25 witness: a name with two ':' was built and its short name holds the second
C25_ShortNameHoldsColon ==
    /\ NewReturned /\ made.ok
    /\ Cardinality(Colons(buffer)) = 2
    /\ Colons(PortFullname_port_shortname(made)) # {}
    /\ PortFullname_client_name(made) # <<>>

-----------------------------------------------------------------------------
(* Claims about the queries of the cached graph *)

\* the client names of the cached ports
CachedClients(ps) == {client_name(ps[i].name) : i \in DOMAIN ps}

\* C27: at rest all_clients() yields each client that owns a cached port once,
\* in the order in which the clients first appear in the port list
C27_AllClientsOnceEach ==
    pc = "idle" =>
        LET out == all_clients(ports)
        IN  /\ Range(out) = CachedClients(ports)
            /\ Len(out) = Cardinality(CachedClients(ports))
            /\ \A i, j \in DOMAIN out :
                  i < j => \E m \in DOMAIN ports :
                              /\ client_name(ports[m].name) = out[i]
                              /\ \A n \in DOMAIN ports :
                                    client_name(ports[n].name) = out[j] => m < n

\* C28: after a successful update() the ports of each client are consecutive in
\* the cached list, and client_ports(c) yields every cached port of client c
C28_PortsGroupedByClient ==
    (pc = "idle" /\ last.upd = "ok") =>
        /\ \A i, j, k \in DOMAIN ports :
              (i < j /\ j < k /\ client_name(ports[i].name) = client_name(ports[k].name))
                  => client_name(ports[j].name) = client_name(ports[i].name)
        /\ \A c \in CachedClients(ports) :
              Range(client_ports(ports, c)) =
                  {ports[i] : i \in {n \in DOMAIN ports : client_name(ports[n].name) = c}}

-----------------------------------------------------------------------------
(* Claims about the patches of connect() and disconnect() *)

\* the index in the cached port list of a cached name
IdxOf(ps, n) == (CHOOSE i \in DOMAIN ps : ps[i].name = n) - 1

\* the canonical index pair of two cached names
KeyOf(ps, a, b) == <<IdxMin(IdxOf(ps, a), IdxOf(ps, b)), IdxMax(IdxOf(ps, a), IdxOf(ps, b))>>

\* the list without the pair
Without(conns, key) == SelectSeq(conns, LAMBDA c : c # key)

\* the step starts update() on behalf of `op` and leaves the cache as it is
FallsBackToUpdate(op) ==
    /\ pc' = "upd_reset" /\ caller' = op
    /\ ports' = ports /\ connections' = connections

\* the step is a call of the owner (no change of another client is used up)
\* whose external call made the connection c
OwnerConnected(c) == extLeft' = extLeft /\ c \notin extConns /\ c \in extConns'

\* the same, for an external call that removed the connection c
OwnerDisconnected(c) == extLeft' = extLeft /\ c \in extConns /\ c \notin extConns'

\* C29: a connect() whose external call succeeds, with both names cached, puts
\* the pair (min, max) of their indices into the connection list once, keeps
\* the port list and the other connections and starts no update(); with a name
\* missing from the cache it starts update() instead
C29_ConnectPatchesCanonicalPair ==
    [][\A c \in extConns' \ extConns :
          OwnerConnected(c)
              => IF {c[1], c[2]} \subseteq CachedNames(ports)
                 THEN LET key == KeyOf(ports, c[1], c[2])
                      IN  /\ ports' = ports /\ pc' = "idle" /\ rf' = rf
                          /\ Range(connections') = Range(connections) \cup {key}
                          /\ Len(connections') = Len(Without(connections, key)) + 1
                          /\ Without(connections', key) = Without(connections, key)
                          /\ key[1] < key[2]
                 ELSE FallsBackToUpdate("connect")]_vars

\* C29 witness: a connect() has put a pair next to another cached connection
C29_PatchedNextToAnother ==
    /\ pc = "idle"
    /\ last = [op |-> "connect", ok |-> TRUE, upd |-> "none"]
    /\ Len(connections) = 2
    /\ Cardinality(extConns) = 2

\* C30: a disconnect() whose external call succeeds, with the pair cached,
\* removes that pair, keeps the port list and the other connections and starts
\* no update(); with a name or the pair missing from the cache it starts
\* update() instead; either way is_connected(source, dest) is false afterwards
\* (in the second case: when update() is about to return and no other client has
\* connected the two ports again)
C30_DisconnectPatchesOrRefreshes ==
    /\ [][\A c \in extConns \ extConns' :
             OwnerDisconnected(c)
                 => IF /\ {c[1], c[2]} \subseteq CachedNames(ports)
                       /\ KeyOf(ports, c[1], c[2]) \in Range(connections)
                    THEN LET key == KeyOf(ports, c[1], c[2])
                         IN  /\ ports' = ports /\ pc' = "idle" /\ rf' = rf
                             /\ connections' = Without(connections, key)
                             /\ Len(connections') = Len(connections) - 1
                             /\ ~is_connected(ports', connections', c[1], c[2])
                    ELSE FallsBackToUpdate("disconnect")]_vars
    /\ []((/\ pc \in {"upd_ok", "upd_err"} /\ caller = "disconnect"
           /\ ~ExtIsConnected(call_args[1], call_args[2]))
             => ~is_connected(ports, connections, call_args[1], call_args[2]))

-----------------------------------------------------------------------------
(* Claims about the freshness of the cache *)

\* C31: when an update() that found the flag set is about to return an error,
\* needs_update() is still true
C31_FailedUpdateStaysStale ==
    (pc = "upd_err" /\ caller # "new" /\ was_stale) => Notifier_check(rf)

-----------------------------------------------------------------------------
(* Claims about ItemKey *)

BelowMax(idx) == idx = Nothing \/ TheOne(idx) < USIZE_MAX

\* C32: a key built by ItemKey::new from indices below usize::MAX gives the
\* three indices back, and its layer is the depth of the first missing index
C32_KeyGivesIndicesBack ==
    (kpc = "made" /\ \A n \in 1..3 : BelowMax(key_in[n])) =>
        /\ item_key # Nothing
        /\ client_idx(TheOne(item_key)) = key_in[1]
        /\ port_idx(TheOne(item_key)) = key_in[2]
        /\ connection_idx(TheOne(item_key)) = key_in[3]
        /\ layer(TheOne(item_key)) =
              IF key_in[1] = Nothing THEN "Root"
              ELSE IF key_in[2] = Nothing THEN "Client"
              ELSE IF key_in[3] = Nothing THEN "Port"
              ELSE "Connection"

C32_PortKeyMade ==
    /\ kpc = "made"
    /\ key_in = <<Some(2), Some(0), Nothing>>
    /\ item_key # Nothing
    /\ layer(TheOne(item_key)) = "Port"

\* C33: nth_child(i) gives Client i on Root, Port (c, i) on Client c,
\* Connection (c, p, i) on Port (c, p), and the key itself on a Connection key
C33_ChildIsOneLayerDown ==
    kpc = "child" =>
        /\ item_key # Nothing
        /\ LET parent == TheOne(parent_key)
               child == TheOne(item_key)
           IN  CASE layer(parent) = "Root" ->
                       /\ layer(child) = "Client"
                       /\ client_idx(child) = Some(child_idx)
                 [] layer(parent) = "Client" ->
                       /\ layer(child) = "Port"
                       /\ client_idx(child) = client_idx(parent)
                       /\ port_idx(child) = Some(child_idx)
                 [] layer(parent) = "Port" ->
                       /\ layer(child) = "Connection"
                       /\ client_idx(child) = client_idx(parent)
                       /\ port_idx(child) = port_idx(parent)
                       /\ connection_idx(child) = Some(child_idx)
                 [] layer(parent) = "Connection" -> child = parent

-----------------------------------------------------------------------------
(* Claims about the order of the connection list *)

IdxPairLess(p, q) == p[1] < q[1] \/ (p[1] = q[1] /\ p[2] < q[2])

\* C34: the connection list is strictly increasing in lexicographic order,
\* every pair (i, j) has i < j, and the binary search finds a pair exactly
\* when the pair is in the list
C34_ConnectionsStrictlySorted ==
    /\ \A i \in 1..(Len(connections) - 1) : IdxPairLess(connections[i], connections[i + 1])
    /\ \A i \in DOMAIN connections : connections[i][1] < connections[i][2]
    /\ \A a, b \in 0..MaxPorts :
          idx_binary_search(connections, <<a, b>>).found <=> <<a, b>> \in Range(connections)

\* C34 witness: connect() has patched a second pair into the list
C34_PatchedSecondPair ==
    /\ pc = "idle"
    /\ last = [op |-> "connect", ok |-> TRUE, upd |-> "none"]
    /\ Len(connections) = 2

-----------------------------------------------------------------------------
(* Claims about the status of a connection *)

\* C39: connection_status never returns Full: its result never has both
\* should_force() and should_block(), and no pair that forced_connections()
\* yields has a status that should_block(), in either order of its ports
C39_StatusNeverFull ==
    /\ \A a, b \in PolicyNames :
          LET status == connection_status(retvl, a, b)
          IN  status # Full /\ ~(should_force(status) /\ should_block(status))
    /\ probe.op = "connection_status" => probe.res # Full
    /\ \A p \in Range(forced_connections(retvl)) :
          /\ ~should_block(connection_status(retvl, p[1], p[2]))
          /\ ~should_block(connection_status(retvl, p[2], p[1]))

\* C39 witness: a declared pair with a port locked Full was queried
C39_FullPortQueried ==
    /\ probe.op = "connection_status"
    /\ port_status(retvl, probe.a) = Full
    /\ <<probe.a, probe.b>> \in Range(retvl.connections_list)
    /\ probe.res = Force

-----------------------------------------------------------------------------
(* Claims about TrejState::reload() *)

\* C36: reload() stops at the first failure: a failed reload_config leaves the
\* policy, the cache and the server as they are and issues no operation;
\* apply_config is entered only after a reload_graph that returned Ok, and
\* reload_graph only together with a reload_config that returned Ok
C36_ReloadStopsAtFirstFailure ==
    /\ [][(last' # last /\ last' = [op |-> "reload", ok |-> FALSE, upd |-> "none"]) =>
            /\ config' = config
            /\ ports' = ports /\ connections' = connections
            /\ pc' = "idle" /\ apc' = "none"
            /\ calls' = calls /\ extConns' = extConns]_vars
    /\ [][(apc = "none" /\ apc' = "run") =>
            last = [op |-> "reload", ok |-> TRUE, upd |-> "ok"]]_vars
    /\ [][(pc = "idle" /\ pc' = "upd_reset") =>
            /\ caller' = "reload"
            /\ \E read \in FileReads :
                  reload_config(config, config_path, read) = [ok |-> TRUE, config |-> config']]_vars

\* C36 witness: a reload that found the file unreadable has returned, with a
\* policy and a cache that an earlier reload left
C36_FailedReloadReturned ==
    /\ last = [op |-> "reload", ok |-> FALSE, upd |-> "none"]
    /\ config_path # Nothing
    /\ config # LockConfig_new
    /\ passes > 0
    /\ ports # <<>>

-----------------------------------------------------------------------------
(* Claims about the daemon's apply_config *)

\* the pair the loop over forced_connections() stands at
ForcedPair == forced_connections(daemon_config)[d_k + 1]

\* both ports listed, not connected, of one type, exactly one an input
MayForce(port_a, port_b) ==
    /\ port_a \in Range(d_names) /\ port_b \in Range(d_names)
    /\ ~ExtIsConnected(port_a, port_b)
    /\ PortType(port_a) = PortType(port_b)
    /\ IsInput(port_a) # IsInput(port_b)

\* C35: a turn of the loop over the forced pairs issues a connect only when
\* both ports are listed, not connected, of one type and exactly one is an
\* input, with the output as source and the input as destination; in every
\* other case it goes on to the next pair with no call and no error
C35_ForcesOnlyCompatiblePairs ==
    [][(dpc = "force" /\ d_k' = d_k + 1) =>
          /\ dcalls' # dcalls =>
                /\ MayForce(ForcedPair[1], ForcedPair[2])
                /\ \E src, dst \in {ForcedPair[1], ForcedPair[2]} :
                      /\ src # dst
                      /\ ~IsInput(src) /\ IsInput(dst)
                      /\ dcalls' = Append(dcalls, [op |-> "connect", source |-> src,
                                                   dest |-> dst])
                      /\ extConns' = extConns \cup {<<src, dst>>}
          /\ ~MayForce(ForcedPair[1], ForcedPair[2]) =>
                dcalls' = dcalls /\ extConns' = extConns /\ dpc' = "force"]_vars

\* C35 witness: the pair (b:i, b:o) was connected as b:o -> b:i
C35_InputFirstPairForced ==
    /\ dpc = "force" /\ d_k > 0
    /\ forced_connections(daemon_config)[d_k] = <<PortBI, PortBO>>
    /\ dcalls # <<>>
    /\ dcalls[Len(dcalls)] = [op |-> "connect", source |-> PortBO, dest |-> PortBI]

\* C38: with nobody else changing the graph or the policy file, the daemon
\* ends waiting in recv() (or stopped by an error) with no message in the
\* channel and no notification on its way, for ever
C38_DaemonQuiesces ==
    <>[](/\ pending = 0
         /\ dpc = "stopped" \/ (dpc = "recv" /\ event_stream = <<>>))

\* C38 witness: a pass that connected a pair has returned and the
\* notification of that connect waits in the channel
C38_OwnChangeNotified ==
    /\ dpc = "recv" /\ pending = 0
    /\ event_stream = <<"GraphUpdated">>
    /\ dcalls # <<>> /\ dcalls[Len(dcalls)].op = "connect"

-----------------------------------------------------------------------------
(* Claims about the popups *)

\* C37: every port the connect popup lists for its port differs from that
\* port, has its category and the opposite direction, is not connected to it
\* in the cache, and their connection is not of status Block or Full
C37_OffersNoBlockedConnection ==
    (ppc # "closed" /\ pop_kind = "connect") =>
        \A Q \in Range(available_ports(pop_port, ports, connections, config)) :
            /\ Q \in Range(ports)
            /\ Q.name # pop_port.name
            /\ Q.category = pop_port.category
            /\ Q.direction # pop_port.direction
            /\ ~is_connected(ports, connections, pop_port.name, Q.name)
            /\ connection_status(config, pop_port.name, Q.name) \notin {Block, Full}

\* C37 witness: the popup of a:o lists nothing, its only partner being blocked
C37_BlockedPartnerNotListed ==
    /\ ppc = "resolved" /\ pop_kind = "connect"
    /\ pop_port = PortDataOf(PortAO)
    /\ PortDataOf(PortBI) \in Range(ports)
    /\ ~is_connected(ports, connections, PortAO, PortBI)
    /\ connection_status(config, PortAO, PortBI) = Block
    /\ available_ports(pop_port, ports, connections, config) = <<>>

\* C40: after resolve_tree_state the selection is none or an index of the list
C40_SelectionWithinList ==
    ppc = "resolved" =>
        \/ selected_idx = Nothing
        \/ TheOne(selected_idx) < ListedLen(pop_kind, pop_port, ports, connections, config)

====
